---------------------------- MODULE Spec2Model ----------------------------
(***************************************************************************)
(* Model of the SGXVM boundary of the Swisstronik EVM module: the          *)
(* Connector the enclave calls back into (sgxvm_connector.go), the keeper  *)
(* state it reads and writes, and the transaction pipeline                 *)
(* ApplySGXVMTransaction / ApplySGXVMMessage around the enclave call.      *)
(***************************************************************************)
EXTENDS Integers, Sequences, FiniteSets, TLC

(***************************************************************************)
(* Bounds of the model.                                                    *)
(***************************************************************************)
MaxReqs == 2      \* Connector requests the enclave issues in a run
MaxTxs == 2       \* transactions handed to the pipeline
MaxBalance == 1   \* balances range over 0..MaxBalance
MaxNonce == 1     \* nonces range over 0..MaxNonce
MaxCode == 1      \* bytecodes: 0 is the empty byte string, 1..MaxCode are blobs
MaxVal == 1       \* storage words: 0 is the 32-byte zero word

Addr == {"a1", "a2"}
Keys == {"k1"}
Balances == 0..MaxBalance
Nonces == 0..MaxNonce
Codes == 0..MaxCode
Vals == 0..MaxVal

(***************************************************************************)
(* Byte strings, big-endian, as big.Int.Bytes / SetBytes and               *)
(* sdk.Uint64ToBigEndian produce and read them.                            *)
(***************************************************************************)
RECURSIVE BigIntBytes(_)
BigIntBytes(n) ==
    IF n = 0 THEN << >> ELSE Append(BigIntBytes(n \div 256), n % 256)

RECURSIVE SetBytes(_)
SetBytes(b) ==
    IF Len(b) = 0 THEN 0
    ELSE 256 * SetBytes(SubSeq(b, 1, Len(b) - 1)) + b[Len(b)]

\* sdk.Uint64ToBigEndian: always 8 bytes, left padded with zeroes.
Uint64ToBigEndian(n) ==
    LET raw == BigIntBytes(n)
    IN  [i \in 1..(8 - Len(raw)) |-> 0] \o raw

\* big.Int.Uint64: the low 64 bits, that is the last 8 bytes.
BigIntUint64(b) ==
    IF Len(b) <= 8 THEN SetBytes(b) ELSE SetBytes(SubSeq(b, Len(b) - 7, Len(b)))

(***************************************************************************)
(* Hashes.  Keccak256 is modelled as an injective map that never yields    *)
(* the zero hash; common.BytesToHash(nil) is the zero hash.                *)
(***************************************************************************)
Keccak256(code) == 3 * code + 1
ZeroHash == 0
emptyCodeHash == Keccak256(0)
Hashes == {ZeroHash} \cup {Keccak256(c) : c \in Codes}

(***************************************************************************)
(* The state behind one sdk.Context: auth accounts, bank balances, the     *)
(* code table and the storage cells.                                       *)
(***************************************************************************)
NoAccount == [exists |-> FALSE, nonce |-> 0, codeHash |-> ZeroHash]

EmptyStore ==
    [accounts |-> [a \in Addr |-> NoAccount],
     bank     |-> [a \in Addr |-> 0],
     code     |-> [h \in Hashes |-> 0],
     storage  |-> [a \in Addr |-> [k \in Keys |-> 0]]]

\* Keeper.GetAccountWithoutBalance: nil when there is no auth account.
GetAccountWithoutBalance(s, addr) == s.accounts[addr]

\* Keeper.GetBalance
GetBalance(s, addr) == s.bank[addr]

\* Keeper.GetCode: the blob stored under the hash, empty when there is none.
GetCode(s, hash) == IF hash \in DOMAIN s.code THEN s.code[hash] ELSE 0

\* Keeper.GetState: the stored word, the zero word when there is none.
GetState(s, addr, key) == s.storage[addr][key]

\* Keeper.SetCode: an empty blob deletes the entry.
SetCode(s, hash, code) == [s EXCEPT !.code[hash] = code]

\* Keeper.SetState: the zero value (or no value) deletes the cell.
SetState(s, addr, key, value) ==
    [s EXCEPT !.storage[addr][key] = IF value < 0 THEN 0 ELSE value]

\* Keeper.SetBalance: a negative amount is an invalid balance.
SetBalanceFails(amount) == amount < 0
SetBalance(s, addr, amount) == [s EXCEPT !.bank[addr] = amount]

\* Keeper.SetAccount: creates the auth account when missing, sets sequence
\* and code hash, then the balance.
SetAccount(s, addr, nonce, balance, codeHash) ==
    SetBalance([s EXCEPT !.accounts[addr] =
                    [exists |-> TRUE, nonce |-> nonce, codeHash |-> codeHash]],
               addr, balance)

\* Keeper.DeleteAccount: no-op on a missing account; otherwise clears the
\* balance and every storage cell and removes the auth account.
DeleteAccount(s, addr) ==
    IF ~s.accounts[addr].exists THEN s
    ELSE [s EXCEPT !.bank[addr] = 0,
                   !.storage[addr] = [k \in DOMAIN s.storage[addr] |-> 0],
                   !.accounts[addr] = NoAccount]


(***************************************************************************)
(* Connector requests (librustgo.CosmosRequest) and responses.  A request  *)
(* carries the fields of its variant; "Malformed" is a byte string that    *)
(* proto.Unmarshal rejects and "Unknown" decodes to none of the variants.  *)
(***************************************************************************)
Req(tag, addr, bal, nonce, code, key, val) ==
    [tag |-> tag, addr |-> addr, balance |-> bal, nonce |-> nonce,
     code |-> code, key |-> key, value |-> val]

NoReq == Req("None", "a1", << >>, << >>, 0, "k1", 0)

AddrReq(tag, addr) == Req(tag, addr, << >>, << >>, 0, "k1", 0)

\* The requests the enclave side encodes: balances and nonces travel as the
\* big-endian bytes of a big.Int.
ReadRequests ==
    {AddrReq(t, a) : t \in {"GetAccount", "ContainsKey", "AccountCode"}, a \in Addr}
    \cup {Req("StorageCell", a, << >>, << >>, 0, k, 0) : a \in Addr, k \in Keys}
    \cup {AddrReq(t, "a1") : t \in {"BlockHash", "BlockTimestamp", "BlockNumber", "ChainId"}}

WriteRequests ==
    {Req("InsertAccount", a, BigIntBytes(b), BigIntBytes(n), 0, "k1", 0) :
        a \in Addr, b \in Balances, n \in Nonces}
    \cup {Req("InsertAccountCode", a, << >>, << >>, c, "k1", 0) : a \in Addr, c \in Codes}
    \cup {Req("InsertStorageCell", a, << >>, << >>, 0, k, v) :
            a \in Addr, k \in Keys, v \in Vals}
    \cup {Req("RemoveStorageCell", a, << >>, << >>, 0, k, 0) : a \in Addr, k \in Keys}
    \cup {AddrReq("Remove", a) : a \in Addr}

BadRequests == {AddrReq(t, "a1") : t \in {"Malformed", "Unknown"}}

Requests == ReadRequests \cup WriteRequests \cup BadRequests

\* A transaction's worth of requests: it creates an account, writes a cell,
\* removes an account, reads, and sends a request of no known variant.
FewRequests ==
    {Req("InsertAccount", "a2", BigIntBytes(MaxBalance), BigIntBytes(MaxNonce), 0, "k1", 0),
     Req("InsertStorageCell", "a1", << >>, << >>, 0, "k1", MaxVal),
     AddrReq("Remove", "a1"),
     AddrReq("GetAccount", "a1"),
     AddrReq("Unknown", "a1")}

\* A response: status "ok" (encoded message, nil error), "error" (nil, err),
\* "nil" (nil, nil) or "panic" (the handler did not return).
Resp(status, msg, bal, nonce, contains, code, value, num) ==
    [status |-> status, msg |-> msg, balance |-> bal, nonce |-> nonce,
     contains |-> contains, code |-> code, value |-> value, number |-> num]

OkResp == Resp("ok", "", << >>, << >>, FALSE, 0, 0, 0)
ErrResp(msg) == Resp("error", msg, << >>, << >>, FALSE, 0, 0, 0)
PanicResp(msg) == Resp("panic", msg, << >>, << >>, FALSE, 0, 0, 0)
NoResp == Resp("none", "", << >>, << >>, FALSE, 0, 0, 0)

Out(s, r) == [store |-> s, resp |-> r]

(***************************************************************************)
(* Block facts of the context the Connector holds.                         *)
(***************************************************************************)
HeaderHash == 11
BlockTime == 7
BlockHeight == 5
ChainID == 9

(***************************************************************************)
(* The Connector's handlers (x/evm/keeper/sgxvm_connector.go), each on the *)
(* state s of the Connector's context.                                     *)
(***************************************************************************)
\* GetAccount that reports a missing account as an error.
GetAccountOrError(s, req) ==
    LET account == GetAccountWithoutBalance(s, req.addr)
    IN  IF ~account.exists
        THEN Out(s, ErrResp("account not found"))
        ELSE Out(s, [OkResp EXCEPT !.balance = BigIntBytes(GetBalance(s, req.addr)),
                                   !.nonce = Uint64ToBigEndian(account.nonce)])

GetAccount(s, req) ==
    LET account == GetAccountWithoutBalance(s, req.addr)
    IN  IF ~account.exists
        THEN Out(s, [OkResp EXCEPT !.balance = << >>, !.nonce = << >>])
        ELSE Out(s, [OkResp EXCEPT !.balance = BigIntBytes(GetBalance(s, req.addr)),
                                   !.nonce = Uint64ToBigEndian(account.nonce)])

\* ContainsKey that takes an account without funds and nonce for absent.
ContainsKeyNonEmpty(s, req) ==
    Out(s, [OkResp EXCEPT !.contains =
                /\ GetAccountWithoutBalance(s, req.addr).exists
                /\ (GetBalance(s, req.addr) > 0
                        \/ GetAccountWithoutBalance(s, req.addr).nonce > 0)])

ContainsKey(s, req) ==
    Out(s, [OkResp EXCEPT !.contains = GetAccountWithoutBalance(s, req.addr).exists])

\* The blob is stored before the account is looked up; the unchecked type
\* assertion on a nil account panics; the code hash set on the in-memory
\* account is never written back with accountKeeper.SetAccount.
InsertAccountCode(s, req) ==
    LET codeHash == Keccak256(req.code)
        s1 == SetCode(s, codeHash, req.code)
    IN  IF ~s1.accounts[req.addr].exists
        THEN Out(s1, PanicResp("interface conversion: interface is nil"))
        ELSE Out(s1, OkResp)

\* RemoveStorageCell that answers without touching the cell.
RemoveStorageCellNoop(s, req) == Out(s, OkResp)

RemoveStorageCell(s, req) == Out(SetState(s, req.addr, req.key, -1), OkResp)

\* Remove that also deletes the code blob the account pointed at.
RemoveDropsCode(s, req) ==
    Out(SetCode(DeleteAccount(s, req.addr), s.accounts[req.addr].codeHash, 0),
        OkResp)

\* Remove that reports a missing account as a failure.
RemoveErrorsOnMissing(s, req) ==
    IF ~s.accounts[req.addr].exists
    THEN Out(s, ErrResp("failed to remove account"))
    ELSE Out(DeleteAccount(s, req.addr), OkResp)

Remove(s, req) == Out(DeleteAccount(s, req.addr), OkResp)

\* BlockHash that looks the asked block number up.
BlockHashOfNumber(s, req) ==
    Out(s, [OkResp EXCEPT
               !.number = IF req.value = BlockHeight THEN HeaderHash ELSE 0])

BlockHash(s, req) == Out(s, [OkResp EXCEPT !.number = HeaderHash])

BlockTimestamp(s, req) == Out(s, [OkResp EXCEPT !.number = BlockTime])

BlockNumber(s, req) == Out(s, [OkResp EXCEPT !.number = BlockHeight])

ChainId(s, req) == Out(s, [OkResp EXCEPT !.number = ChainID])

InsertStorageCell(s, req) == Out(SetState(s, req.addr, req.key, req.value), OkResp)

GetStorageCell(s, req) ==
    Out(s, [OkResp EXCEPT !.value = GetState(s, req.addr, req.key)])

GetAccountCode(s, req) ==
    LET account == GetAccountWithoutBalance(s, req.addr)
    IN  IF ~account.exists THEN Out(s, OkResp)
        ELSE Out(s, [OkResp EXCEPT !.code = GetCode(s, account.codeHash)])

\* InsertAccount that writes every account without a code hash.
InsertAccountDropsCodeHash(s, req) ==
    LET balance == SetBytes(req.balance)
        nonce == BigIntUint64(req.nonce)
    IN  IF SetBalanceFails(balance)
        THEN Out(s, ErrResp("Cannot set account"))
        ELSE Out(SetAccount(s, req.addr, nonce, balance, ZeroHash), OkResp)

\* InsertAccount that keeps the nonce of the account it found.
InsertAccountKeepsNonce(s, req) ==
    LET account == GetAccountWithoutBalance(s, req.addr)
        balance == SetBytes(req.balance)
        codeHash == IF ~account.exists THEN ZeroHash ELSE account.codeHash
    IN  IF SetBalanceFails(balance)
        THEN Out(s, ErrResp("Cannot set account"))
        ELSE Out(SetAccount(s, req.addr, account.nonce, balance, codeHash), OkResp)

\* InsertAccount that refuses to lower a balance.
InsertAccountRejectsBurn(s, req) ==
    LET account == GetAccountWithoutBalance(s, req.addr)
        balance == SetBytes(req.balance)
        nonce == BigIntUint64(req.nonce)
        codeHash == IF ~account.exists THEN ZeroHash ELSE account.codeHash
    IN  IF SetBalanceFails(balance) \/ balance < GetBalance(s, req.addr)
        THEN Out(s, ErrResp("Cannot set account"))
        ELSE Out(SetAccount(s, req.addr, nonce, balance, codeHash), OkResp)

InsertAccount(s, req) ==
    LET account == GetAccountWithoutBalance(s, req.addr)
        balance == SetBytes(req.balance)
        nonce == BigIntUint64(req.nonce)
        codeHash == IF ~account.exists THEN ZeroHash ELSE account.codeHash
    IN  IF SetBalanceFails(balance)
        THEN Out(s, ErrResp("Cannot set account"))
        ELSE Out(SetAccount(s, req.addr, nonce, balance, codeHash), OkResp)

\* A request that decodes to none of the variants.
WrongQueryNil(s, req) == Out(s, Resp("nil", "", << >>, << >>, FALSE, 0, 0, 0))

WrongQuery(s, req) == Out(s, ErrResp("wrong query received"))

Query(s, req) ==
    CASE req.tag = "Malformed" -> Out(s, ErrResp("proto: cannot parse"))
      [] req.tag = "GetAccount" -> GetAccount(s, req)
      [] req.tag = "InsertAccount" -> InsertAccount(s, req)
      [] req.tag = "ContainsKey" -> ContainsKey(s, req)
      [] req.tag = "AccountCode" -> GetAccountCode(s, req)
      [] req.tag = "StorageCell" -> GetStorageCell(s, req)
      [] req.tag = "InsertStorageCell" -> InsertStorageCell(s, req)
      [] req.tag = "InsertAccountCode" -> InsertAccountCode(s, req)
      [] req.tag = "RemoveStorageCell" -> RemoveStorageCell(s, req)
      [] req.tag = "Remove" -> Remove(s, req)
      [] req.tag = "BlockHash" -> BlockHash(s, req)
      [] req.tag = "BlockTimestamp" -> BlockTimestamp(s, req)
      [] req.tag = "BlockNumber" -> BlockNumber(s, req)
      [] req.tag = "ChainId" -> ChainId(s, req)
      [] OTHER -> WrongQuery(s, req)


(***************************************************************************)
(* The StateDB-backed Connector of ApplySGXVMMessage (Connector{StateDB}): *)
(* the same request catalogue served from the StateDB's view s.  Code is   *)
(* linked to the account; a missing account is an AccountNotFound error    *)
(* before any write.                                                       *)
(***************************************************************************)
StateDBInsertAccountCode(s, req) ==
    IF ~s.accounts[req.addr].exists
    THEN Out(s, ErrResp("cannot insert account code. Account does not exist"))
    ELSE Out([SetCode(s, Keccak256(req.code), req.code)
                 EXCEPT !.accounts[req.addr].codeHash = Keccak256(req.code)],
             OkResp)

StateDBQuery(s, req) ==
    IF req.tag = "InsertAccountCode" THEN StateDBInsertAccountCode(s, req)
    ELSE Query(s, req)

\* statedb.New: the view starts as the state of the context it wraps.
StateDBNew(s) == s

\* StateDB.Commit: the dirty objects are written to the wrapped context.
StateDBCommit(s, view) == view

(***************************************************************************)
(* Transactions, enclave results and hooks.                                *)
(***************************************************************************)
TxGas == 21000
TxGasContractCreation == 53000

TxDataZeroGas == 4
TxDataNonZeroGasFrontier == 68
TxDataNonZeroGasEIP2028 == 16
TxAccessListAddressGas == 2400
TxAccessListStorageKeyGas == 1900

\* TestGetEthIntrinsicGas: the fork blocks of the chain config.
HomesteadBlock == 2
IstanbulBlock == 3
Heights == 1..IstanbulBlock

MaxData == 2          \* bytes of transaction data
MaxTuples == 2        \* entries of an access list
MaxStorageKeys == 1   \* storage keys of one access-list entry

\* Transaction data, byte by byte: a zero byte or a non-zero one.
DataSeqs == UNION {[1..n -> {0, 1}] : n \in 0..MaxData}

\* Access lists: each entry is told by the number of its storage keys.
AccessLists == UNION {[1..n -> 0..MaxStorageKeys] : n \in 0..MaxTuples}

\* The number of non-zero bytes of data, counted byte by byte.
RECURSIVE NonZeroBytes(_)
NonZeroBytes(data) ==
    IF Len(data) = 0 THEN 0
    ELSE (IF Head(data) # 0 THEN 1 ELSE 0) + NonZeroBytes(Tail(data))

\* AccessList.StorageKeys: the storage keys of all entries together.
RECURSIVE StorageKeys(_)
StorageKeys(accessList) ==
    IF Len(accessList) = 0 THEN 0
    ELSE Head(accessList) + StorageKeys(Tail(accessList))

\* core.IntrinsicGas that charges the Frontier cost whatever the fork.
IntrinsicGasFrontier(data, accessList, isContractCreation, isHomestead, isEIP2028) ==
    LET gas == IF isContractCreation /\ isHomestead THEN TxGasContractCreation
               ELSE TxGas
        nz == NonZeroBytes(data)
        z == Len(data) - nz
    IN  gas + nz * TxDataNonZeroGasFrontier + z * TxDataZeroGas
            + Len(accessList) * TxAccessListAddressGas
            + StorageKeys(accessList) * TxAccessListStorageKeyGas

\* core.IntrinsicGas: the base gas, then the data bytes, then the access list.
IntrinsicGas(data, accessList, isContractCreation, isHomestead, isEIP2028) ==
    LET gas == IF isContractCreation /\ isHomestead THEN TxGasContractCreation
               ELSE TxGas
        nz == NonZeroBytes(data)
        nonZeroGas == IF isEIP2028 THEN TxDataNonZeroGasEIP2028
                      ELSE TxDataNonZeroGasFrontier
        z == Len(data) - nz
    IN  gas + nz * nonZeroGas + z * TxDataZeroGas
            + Len(accessList) * TxAccessListAddressGas
            + StorageKeys(accessList) * TxAccessListStorageKeyGas

\* Keeper.GetEthIntrinsicGas for the messages of the pipeline: empty data,
\* no access list, a height past every fork block.
GetEthIntrinsicGas(msg) == IntrinsicGas(<< >>, << >>, msg.create, TRUE, TRUE)

GasLimits == {TxGas - 1, TxGasContractCreation}

\* params.RefundQuotientEIP3529
RefundQuotientEIP3529 == 5

MaxRefund == 2        \* the StateDB's accumulated refund counter
MaxGasConsumed == 5   \* gas consumed handed to GasToRefund on its own
MaxQuotient == 2      \* refund quotients handed to GasToRefund on its own
Refunds == 0..MaxRefund

\* GasToRefund that answers zero for a zero quotient.
GasToRefundZeroQuotient(availableRefund, gasConsumed, refundQuotient) ==
    IF refundQuotient = 0 THEN [panic |-> FALSE, refund |-> 0]
    ELSE LET refund == gasConsumed \div refundQuotient
         IN  [panic |-> FALSE,
              refund |-> IF refund > availableRefund THEN availableRefund ELSE refund]

\* GasToRefund: the refund is gasConsumed / refundQuotient, capped at the
\* available refund; the division by a zero quotient panics.
GasToRefund(availableRefund, gasConsumed, refundQuotient) ==
    IF refundQuotient = 0 THEN [panic |-> TRUE, refund |-> 0]
    ELSE LET refund == gasConsumed \div refundQuotient
         IN  [panic |-> FALSE,
              refund |-> IF refund > availableRefund THEN availableRefund ELSE refund]

Msgs == [gas : GasLimits, create : BOOLEAN]

\* A call with gas to spare.
CallMsgs == {m \in Msgs : ~m.create /\ m.gas >= TxGas}

\* The message with cfg.Params of the EVMConfig loaded for its transaction.
WithParams(m, enableCreate, enableCall) ==
    [gas |-> m.gas, create |-> m.create,
     enableCreate |-> enableCreate, enableCall |-> enableCall]

NoMsg == [gas |-> 0, create |-> FALSE, enableCreate |-> TRUE, enableCall |-> TRUE]

ErrPostTxProcessing == "failed to execute post processing"
ErrIntrinsicGas == "intrinsic gas too low"
ErrCreateDisabled == "EVM Create operation is disabled"
ErrCallDisabled == "EVM Call operation is disabled"
ErrHandleTx == "enclave: execution failed"
ErrTransientGasUsed == "failed to add transient gas used"
ErrRefundGas == "failed to refund gas leftover gas to sender"
ErrGasOverflow == "gas computation overflow/underflow"

\* Gas counters are uint64; where a sum can leave the range the 64 bits are
\* scaled to GasBits bits.
GasBits == 3
Uint64Modulus == 2 ^ GasBits
Uint64s == 0..(Uint64Modulus - 1)

\* ctx.BlockGasMeter(): nil, or a meter with its limit and the gas consumed.
NoMeter == [present |-> FALSE, limit |-> 0, consumed |-> 0]
Meters == {NoMeter} \cup [present : {TRUE}, limit : Uint64s, consumed : Uint64s]

\* The receipt's cumulative gas used: the uint64 sum of the transaction's gas
\* and the gas the block consumed so far, capped at the block gas limit.
CumulativeGasUsed(gasUsed, meter) ==
    IF ~meter.present THEN gasUsed
    ELSE LET sum == (gasUsed + meter.consumed) % Uint64Modulus
         IN  IF sum > meter.limit THEN meter.limit ELSE sum

\* Logs are told apart by the bloom bit their address and topics set.
LogBits == {1, 2}
MaxLogs == 2
LogSeqs == UNION {[1..n -> LogBits] : n \in 0..MaxLogs}

\* ethtypes.LogsBloom: the OR of the logs' bits, as a set of bits.
LogsBloom(logs) == {logs[i] : i \in 1..Len(logs)}

VmErrors == {"", "execution reverted"}
GasUsedVals == {TxGas}

\* librustgo.HandleTx's result.
HandleTxResults == [gasUsed : GasUsedVals, vmError : VmErrors, logs : LogSeqs]

\* The results the enclave returns in Spec: at most one log.
FewLogResults == {r \in HandleTxResults : Len(r.logs) <= 1 /\ \A i \in 1..Len(r.logs) : r.logs[i] = 1}

\* What a post-processing hook does with the context it is handed.
HookEffects == {"none", "setState", "setBalance"}

HookEffect(s, e) ==
    CASE e = "setState" -> SetState(s, "a2", "k1", MaxVal)
      [] e = "setBalance" -> SetBalance(s, "a1", 0)
      [] OTHER -> s


(***************************************************************************)
(* The State Store on its own (spec 4.1): an in-memory overlay over the    *)
(* durable store, a journal of undo entries and the stack of snapshots.    *)
(***************************************************************************)
MaxOps == 4       \* State Store operations in a run

JournalEntry(kind, addr, key, hash, s) ==
    [kind |-> kind, addr |-> addr, key |-> key, hash |-> hash,
     account |-> s.accounts[addr], balance |-> s.bank[addr],
     storage |-> s.storage[addr], code |-> s.code[hash],
     value |-> s.storage[addr][key]]

\* An undo that leaves storage writes in place.
UndoKeepsStorage(s, e) ==
    CASE e.kind = "account" ->
            [s EXCEPT !.accounts[e.addr] = e.account, !.bank[e.addr] = e.balance]
      [] e.kind = "code" -> [s EXCEPT !.code[e.hash] = e.code]
      [] e.kind = "destroy" ->
            [s EXCEPT !.accounts[e.addr] = e.account, !.bank[e.addr] = e.balance,
                      !.storage[e.addr] = e.storage]
      [] OTHER -> s

\* One journal entry undone: the prior value it captured is put back.
Undo(s, e) ==
    CASE e.kind = "account" ->
            [s EXCEPT !.accounts[e.addr] = e.account, !.bank[e.addr] = e.balance]
      [] e.kind = "code" -> [s EXCEPT !.code[e.hash] = e.code]
      [] e.kind = "storage" -> [s EXCEPT !.storage[e.addr][e.key] = e.value]
      [] e.kind = "destroy" ->
            [s EXCEPT !.accounts[e.addr] = e.account, !.bank[e.addr] = e.balance,
                      !.storage[e.addr] = e.storage]
      [] OTHER -> s

\* The entries above index are popped and undone, the latest first.
RECURSIVE journalRevert(_, _, _)
journalRevert(s, journal, index) ==
    IF Len(journal) <= index THEN s
    ELSE journalRevert(Undo(s, journal[Len(journal)]),
                       SubSeq(journal, 1, Len(journal) - 1), index)

\* The accounts set_account is called with.
StoreAccounts ==
    {[nonce |-> MaxNonce, balance |-> 0, codeHash |-> emptyCodeHash],
     [nonce |-> 0, balance |-> MaxBalance, codeHash |-> Keccak256(MaxCode)]}

NoLast == [op |-> "none", id |-> 0, view |-> EmptyStore, durable |-> EmptyStore,
           undone |-> 0, was |-> EmptyStore]

\* A State Store over the durable store s; NoStateDB where none is in use.
\* retired holds the snapshot ids that were reverted past or committed, kept
\* to state what revert_to may accept.
NewStateDB(s) ==
    [durable |-> s, overlay |-> s, journal |-> << >>, validRevisions |-> << >>,
     nextRevisionId |-> 0, ops |-> 0, last |-> NoLast, retired |-> {}]

NoStateDB == NewStateDB(EmptyStore)

\* The position of snapshot id in the stack of valid revisions, 0 if none.
RevisionIndex(revisions, id) ==
    IF \E i \in 1..Len(revisions) : revisions[i].id = id
    THEN CHOOSE i \in 1..Len(revisions) : revisions[i].id = id
    ELSE 0

(***************************************************************************)
(* State.                                                                  *)
(***************************************************************************)
VARIABLES
    impl,        \* which pipeline the build holds: "keeper" or "statedb"
    hooks,       \* k.hooks != nil
    ctx,         \* the state behind the parent context ctx
    cached,      \* commit != nil: a cache context is open
    tmpCtx,      \* the state behind the cache context, when one is open
    stateDB,     \* the StateDB's view, when ApplySGXVMMessage opened one
    pc,          \* "idle", or "enclave" while librustgo.HandleTx runs
    msg,         \* the message of the transaction in flight
    pre,         \* ctx when the transaction was handed to the pipeline
    nreq,        \* Connector requests served so far
    lastReq,     \* the last request Connector.Query served
    lastResp,    \* and what it returned
    reqPre,      \* the state the Connector held before that request
    reqPost,     \* and the state the handler left behind
    queryFailed, \* a request of this transaction returned an error
    txCount,     \* transactions handed to the pipeline so far
    tr,          \* transient store: tx index, log size, block bloom, gas used
    preTr,       \* tr when the transaction was handed to the pipeline
    out,         \* what ApplySGXVMTransaction returned last
    sdb          \* a State Store on its own: overlay, journal, revisions

pipelineVars == <<impl, hooks, ctx, cached, tmpCtx, stateDB, pc, msg, pre, nreq,
                  lastReq, lastResp, reqPre, reqPost, queryFailed, txCount, tr,
                  preTr, out>>

vars == <<pipelineVars, sdb>>

\* suite.address: an account with funds and no code.
InitStore ==
    SetAccount(EmptyStore, "a1", 0, MaxBalance, emptyCodeHash)

InitTransients == [txIndex |-> 0, logSize |-> 0, bloom |-> {}, gasUsed |-> 0]

\* What the pipeline returned, with what it did on the way: kind is "response"
\* (res, nil), "error" (nil, err) or "panic"; effects tells whether the state
\* the transaction worked on differed from ctx as it was handed in.
NoOut ==
    [kind |-> "none", err |-> "", gasUsed |-> 0, vmError |-> "", logs |-> << >>,
     status |-> 0, enclaveCalled |-> FALSE, hooksCalled |-> FALSE,
     hookFailed |-> FALSE, enclaveVmError |-> "", enclaveLogs |-> 0, refund |-> 0,
     cacheOpened |-> FALSE, committed |-> FALSE, effects |-> FALSE,
     gas |-> 0, create |-> FALSE, enableCreate |-> TRUE, enableCall |-> TRUE,
     availableRefund |-> 0, temporaryGasUsed |-> 0, refundQuotient |-> 0,
     gasRefund |-> 0, leftoverGas |-> 0,
     meter |-> NoMeter, cumulativeGasUsed |-> 0, receiptLogs |-> << >>,
     gasMeterConsumed |-> 0, ethLogs |-> << >>]

ErrOut(m, e, called, opened, effects) ==
    [NoOut EXCEPT !.kind = "error", !.err = e, !.enclaveCalled = called,
                  !.cacheOpened = opened, !.effects = effects,
                  !.gas = m.gas, !.create = m.create,
                  !.enableCreate = m.enableCreate, !.enableCall = m.enableCall]

InitPipeline ==
    /\ impl \in {"keeper", "statedb"}
    /\ hooks \in BOOLEAN
    /\ ctx = InitStore
    /\ cached = FALSE
    /\ tmpCtx = EmptyStore
    /\ stateDB = EmptyStore
    /\ pc = "idle"
    /\ msg = NoMsg
    /\ pre = InitStore
    /\ nreq = 0
    /\ lastReq = NoReq
    /\ lastResp = NoResp
    /\ reqPre = EmptyStore
    /\ reqPost = EmptyStore
    /\ queryFailed = FALSE
    /\ txCount = 0
    /\ tr = InitTransients
    /\ preTr = InitTransients
    /\ out = NoOut

Init == InitPipeline /\ sdb = NoStateDB

\* The state behind tmpCtx: the cache context, or ctx itself without hooks.
TmpCtx == IF cached THEN tmpCtx ELSE ctx

\* The state the Connector of the transaction in flight reads and writes.
ConnectorState == IF impl = "statedb" THEN stateDB ELSE TmpCtx

\* No request of the transaction in flight is on record.
ForgetRequest ==
    /\ lastReq' = NoReq
    /\ lastResp' = NoResp
    /\ reqPre' = EmptyStore
    /\ reqPost' = EmptyStore

\* Connector.Query of the Connector the pipeline in use hands to the enclave.
ServedQuery(s, req) ==
    IF impl = "statedb" THEN StateDBQuery(s, req) ELSE Query(s, req)

\* The transaction is over: its cache context and StateDB are dropped.
EndTx(o) ==
    /\ pc' = "idle"
    /\ out' = o
    /\ cached' = FALSE
    /\ tmpCtx' = EmptyStore
    /\ stateDB' = EmptyStore
    /\ msg' = NoMsg
    /\ queryFailed' = FALSE

(***************************************************************************)
(* ApplySGXVMTransaction of the Keeper-backed Connector, up to the enclave *)
(* call: no gas check, a cache context when hooks are set.                 *)
(***************************************************************************)
KeeperDispatch(m, enableCreate, enableCall) ==
    /\ pc = "idle" /\ impl = "keeper" /\ txCount < MaxTxs
    /\ txCount' = txCount + 1
    /\ pre' = ctx
    /\ preTr' = tr
    /\ msg' = WithParams(m, enableCreate, enableCall)
    /\ cached' = hooks
    /\ tmpCtx' = IF hooks THEN ctx ELSE EmptyStore
    /\ pc' = "enclave"
    /\ out' = NoOut
    /\ ForgetRequest
    /\ UNCHANGED <<impl, hooks, ctx, stateDB, queryFailed, tr, nreq, sdb>>

(***************************************************************************)
(* ApplySGXVMTransaction and ApplySGXVMMessage of the StateDB-backed       *)
(* Connector, up to the enclave call.                                      *)
(***************************************************************************)
StateDBDispatch(m, enableCreate, enableCall) ==
    /\ pc = "idle" /\ impl = "statedb" /\ txCount < MaxTxs
    /\ txCount' = txCount + 1
    /\ pre' = ctx
    /\ preTr' = tr
    /\ ForgetRequest
    /\ UNCHANGED <<impl, hooks, ctx, tr, nreq, sdb>>
    /\ LET cm == WithParams(m, enableCreate, enableCall) IN
       IF m.gas < GetEthIntrinsicGas(m)
       THEN EndTx(ErrOut(cm, ErrIntrinsicGas, FALSE, FALSE, FALSE))
       ELSE IF ~enableCreate /\ m.create
       THEN EndTx(ErrOut(cm, ErrCreateDisabled, FALSE, hooks, FALSE))
       ELSE IF ~enableCall /\ ~m.create
       THEN EndTx(ErrOut(cm, ErrCallDisabled, FALSE, hooks, FALSE))
       ELSE /\ msg' = cm
            /\ cached' = hooks
            /\ tmpCtx' = IF hooks THEN ctx ELSE EmptyStore
            /\ stateDB' = StateDBNew(ctx)
            /\ pc' = "enclave"
            /\ out' = NoOut
            /\ UNCHANGED queryFailed


(***************************************************************************)
(* The enclave (librustgo.HandleTx) while it runs: it calls back           *)
(* connector.Query, and treats a failed request as fatal.                  *)
(***************************************************************************)
EnclaveQuery(req) ==
    /\ pc = "enclave" /\ nreq < MaxReqs /\ ~queryFailed
    /\ LET o == ServedQuery(ConnectorState, req)
           ctxNow == IF impl = "keeper" /\ ~cached THEN o.store ELSE ctx
       IN  /\ nreq' = nreq + 1
           /\ ctx' = ctxNow
           /\ lastReq' = req
           /\ lastResp' = o.resp
           /\ reqPre' = ConnectorState
           /\ reqPost' = o.store
           /\ IF o.resp.status = "panic"
              THEN EndTx([NoOut EXCEPT !.kind = "panic", !.err = o.resp.msg,
                                       !.enclaveCalled = TRUE, !.cacheOpened = cached,
                                       !.effects = (o.store # pre),
                                       !.gas = msg.gas, !.create = msg.create,
                                       !.enableCreate = msg.enableCreate, !.enableCall = msg.enableCall])
              ELSE /\ queryFailed' = (o.resp.status = "error")
                   /\ tmpCtx' = IF impl = "keeper" /\ cached THEN o.store ELSE tmpCtx
                   /\ stateDB' = IF impl = "statedb" THEN o.store ELSE stateDB
                   /\ UNCHANGED <<pc, msg, cached, out>>
    /\ UNCHANGED <<impl, hooks, pre, txCount, tr, preTr, sdb>>

\* The call is abandoned: the pipeline is idle again with nothing returned.
EnclaveCancelled ==
    /\ pc = "enclave"
    /\ EndTx(NoOut)
    /\ ForgetRequest
    /\ UNCHANGED <<impl, hooks, ctx, pre, nreq, txCount, tr, preTr, sdb>>

\* librustgo.HandleTx returns an error: both pipelines return it as it is.
EnclaveError ==
    /\ pc = "enclave"
    /\ EndTx(ErrOut(msg, ErrHandleTx, TRUE, cached, ConnectorState # pre))
    /\ ForgetRequest
    /\ UNCHANGED <<impl, hooks, ctx, pre, nreq, txCount, tr, preTr, sdb>>

(***************************************************************************)
(* The rest of both pipelines, after librustgo.HandleTx returned res.      *)
(***************************************************************************)
\* SGXVMLogsToEthereum: every log gets the transaction's TxConfig.
SGXVMLogToEthereum(log, txConfig) ==
    [bit |-> log, txIndex |-> txConfig.txIndex, index |-> txConfig.logIndex]

SGXVMLogsToEthereum(logs, txConfig) ==
    [i \in 1..Len(logs) |-> SGXVMLogToEthereum(logs[i], txConfig)]

\* Keeper.TxConfig: tx index and log index base from the transient store.
TxConfig(t) == [txIndex |-> t.txIndex, logIndex |-> t.logSize]

\* Keeper.PostTxProcessing: nothing without hooks; else the hook acts on the
\* context it is handed and returns its error.
PostTxProcessing(s, hookEffect, hookErr) ==
    IF hooks THEN [store |-> HookEffect(s, hookEffect), err |-> hookErr]
    ELSE [store |-> s, err |-> FALSE]

\* A hook acts only when hooks are set and PostTxProcessing is called.
HookActs(callHooks) == hooks /\ callHooks

\* Whether commit() runs after the hooks returned: never after a hook error,
\* and only when a cache context was opened.
ShouldCommitAnyway(postErr, hasCommit) == hasCommit

ShouldCommit(postErr, hasCommit) == ~postErr /\ hasCommit

\* The hooks were not called.
NoPostTxProcessing(s) == [store |-> s, err |-> FALSE]

\* The 64-bit word of a gas amount, scaled to GasWordBits bits: wide enough
\* for the gas limits of the messages.
GasWordBits == 17
GasWordModulus == 2 ^ GasWordBits

\* a - b on uint64: the difference wraps around below zero.
Uint64Sub(a, b) == (a - b) % GasWordModulus

\* Keeper.RefundGas pays leftoverGas times the gas price from the fee
\* collector to the sender. The collector holds the fee of the gas limit, so
\* an amount up to the gas limit is paid; a larger one is paid or refused,
\* as the price and the collector's balance have it.
RefundGasErrors(m, leftoverGas) ==
    IF leftoverGas > m.gas THEN BOOLEAN ELSE {FALSE}

\* Keeper.AddTransientGasUsed returns an error when the block's gas used
\* leaves the 64-bit word; amounts above the scaled word stand for ordinary
\* gas amounts, far from the end of the real one.
AddTransientGasUsedFails(t, gasUsed) ==
    /\ t.gasUsed \in Uint64s
    /\ gasUsed \in Uint64s
    /\ t.gasUsed + gasUsed >= Uint64Modulus

\* The transient store after a receipt whose gas is not added to the block's.
TransientsAfterDropsGas(t, txConfig, receiptLogs, bloomReceipt, gasUsed) ==
    [txIndex |-> txConfig.txIndex + 1,
     logSize |-> IF Len(receiptLogs) > 0 THEN txConfig.logIndex + Len(receiptLogs)
                 ELSE t.logSize,
     bloom   |-> IF Len(receiptLogs) > 0 THEN bloomReceipt ELSE t.bloom,
     gasUsed |-> t.gasUsed]

\* The transient store after a receipt, a receipt without logs clearing the
\* block bloom.
TransientsAfterClearsBloom(t, txConfig, receiptLogs, bloomReceipt, gasUsed) ==
    [txIndex |-> txConfig.txIndex + 1,
     logSize |-> IF Len(receiptLogs) > 0 THEN txConfig.logIndex + Len(receiptLogs)
                 ELSE t.logSize,
     bloom   |-> IF Len(receiptLogs) > 0 THEN bloomReceipt ELSE {},
     gasUsed |-> t.gasUsed + gasUsed]

\* The transient store after the receipt was assembled.
TransientsAfter(t, txConfig, receiptLogs, bloomReceipt, gasUsed) ==
    [txIndex |-> txConfig.txIndex + 1,
     logSize |-> IF Len(receiptLogs) > 0 THEN txConfig.logIndex + Len(receiptLogs)
                 ELSE t.logSize,
     bloom   |-> IF Len(receiptLogs) > 0 THEN bloomReceipt ELSE t.bloom,
     gasUsed |-> t.gasUsed + gasUsed]

\* state_object.go: whether the hooks run.
KeeperCallsHooks(res) == res.vmError # ""

KeeperReturn(res, hookEffect, hookErr, meter) ==
    /\ pc = "enclave" /\ impl = "keeper" /\ ~queryFailed
    /\ HookActs(KeeperCallsHooks(res)) \/ (hookEffect = "none" /\ ~hookErr)
    /\ LET txConfig == TxConfig(tr)
           logs == SGXVMLogsToEthereum(res.logs, txConfig)
           bloomReceipt ==
               IF Len(logs) > 0 THEN tr.bloom \cup LogsBloom(res.logs) ELSE {}
           callHooks == KeeperCallsHooks(res)
           post == IF callHooks THEN PostTxProcessing(TmpCtx, hookEffect, hookErr)
                   ELSE NoPostTxProcessing(TmpCtx)
           doCommit == callHooks /\ ShouldCommit(post.err, cached)
       IN  /\ ctx' = IF doCommit \/ ~cached THEN post.store ELSE ctx
           /\ tr' = IF AddTransientGasUsedFails(tr, res.gasUsed)
                    THEN [TransientsAfter(tr, txConfig, logs, bloomReceipt,
                                          res.gasUsed)
                             EXCEPT !.gasUsed = tr.gasUsed]
                    ELSE TransientsAfter(tr, txConfig, logs, bloomReceipt,
                                         res.gasUsed)
           /\ EndTx(IF AddTransientGasUsedFails(tr, res.gasUsed)
                    THEN ErrOut(msg, ErrTransientGasUsed, TRUE, cached,
                                post.store # pre)
                    ELSE [NoOut EXCEPT
                  !.kind = "response",
                  !.gasUsed = res.gasUsed,
                  !.vmError = IF post.err THEN ErrPostTxProcessing ELSE res.vmError,
                  !.logs = IF post.err THEN << >> ELSE res.logs,
                  !.status = IF callHooks THEN 1 ELSE 0,
                  !.enclaveCalled = TRUE,
                  !.hooksCalled = callHooks,
                  !.hookFailed = post.err,
                  !.enclaveVmError = res.vmError,
                  !.enclaveLogs = Len(res.logs),
                  !.cacheOpened = cached,
                  !.committed = doCommit,
                  !.effects = (post.store # pre),
                  !.gas = msg.gas, !.create = msg.create,
                  !.enableCreate = msg.enableCreate, !.enableCall = msg.enableCall,
                  !.meter = meter,
                  !.cumulativeGasUsed = CumulativeGasUsed(res.gasUsed, meter),
                  !.receiptLogs = res.logs,
                  !.ethLogs = logs,
                  !.gasMeterConsumed =
                      TransientsAfter(tr, txConfig, logs, bloomReceipt,
                                      res.gasUsed).gasUsed])
    /\ ForgetRequest
    /\ UNCHANGED <<impl, hooks, pre, nreq, txCount, preTr, sdb>>

\* part_001: whether the hooks run.
StateDBCallsHooks(res) == res.vmError = ""

StateDBReturn(res, hookEffect, hookErr, availableRefund, meter) ==
    /\ pc = "enclave" /\ impl = "statedb" /\ ~queryFailed
    /\ HookActs(StateDBCallsHooks(res)) \/ (hookEffect = "none" /\ ~hookErr)
    /\ LET txConfig == TxConfig(preTr)
           \* ApplySGXVMMessage: the gas handed to the enclave, which is what
           \* leftoverGas still holds when HandleTx has returned
           leftoverGas == msg.gas - GetEthIntrinsicGas(msg)
           temporaryGasUsed == msg.gas - leftoverGas
           gasRefund == GasToRefund(availableRefund, temporaryGasUsed,
                                    RefundQuotientEIP3529)
           \* ApplySGXVMMessage: commit is true, the StateDB is flushed to tmpCtx
           flushed == StateDBCommit(TmpCtx, stateDB)
           logs == SGXVMLogsToEthereum(res.logs, txConfig)
           bloomReceipt ==
               IF Len(logs) > 0 THEN tr.bloom \cup LogsBloom(res.logs) ELSE {}
           callHooks == StateDBCallsHooks(res)
           post == IF callHooks THEN PostTxProcessing(flushed, hookEffect, hookErr)
                   ELSE NoPostTxProcessing(flushed)
           doCommit == callHooks /\ ShouldCommit(post.err, cached)
       IN  IF msg.gas < leftoverGas
           THEN /\ UNCHANGED <<ctx, tr>>
                /\ EndTx(ErrOut(msg, ErrGasOverflow, TRUE, cached, stateDB # pre))
           ELSE IF gasRefund.panic
           THEN /\ UNCHANGED <<ctx, tr>>
                /\ EndTx([NoOut EXCEPT !.kind = "panic", !.enclaveCalled = TRUE,
                                       !.cacheOpened = cached,
                                       !.gas = msg.gas, !.create = msg.create,
                                       !.enableCreate = msg.enableCreate, !.enableCall = msg.enableCall])
           ELSE \E refundErr \in RefundGasErrors(msg, Uint64Sub(msg.gas, res.gasUsed)) :
           /\ ctx' = IF doCommit \/ ~cached THEN post.store ELSE ctx
           /\ tr' = IF refundErr THEN tr
                    ELSE IF AddTransientGasUsedFails(tr, res.gasUsed)
                    THEN [TransientsAfter(tr, txConfig, logs, bloomReceipt,
                                          res.gasUsed)
                             EXCEPT !.gasUsed = tr.gasUsed]
                    ELSE TransientsAfter(tr, txConfig, logs, bloomReceipt,
                                         res.gasUsed)
           /\ EndTx(IF refundErr
                    THEN ErrOut(msg, ErrRefundGas, TRUE, cached, post.store # pre)
                    ELSE IF AddTransientGasUsedFails(tr, res.gasUsed)
                    THEN ErrOut(msg, ErrTransientGasUsed, TRUE, cached,
                                post.store # pre)
                    ELSE [NoOut EXCEPT
                  !.kind = "response",
                  !.gasUsed = res.gasUsed,
                  !.vmError = IF post.err THEN ErrPostTxProcessing ELSE res.vmError,
                  !.logs = IF post.err THEN << >> ELSE res.logs,
                  !.status = IF callHooks THEN 1 ELSE 0,
                  !.enclaveCalled = TRUE,
                  !.hooksCalled = callHooks,
                  !.hookFailed = post.err,
                  !.enclaveVmError = res.vmError,
                  !.enclaveLogs = Len(res.logs),
                  !.refund = Uint64Sub(msg.gas, res.gasUsed),
                  !.cacheOpened = cached,
                  !.committed = doCommit,
                  !.effects = (post.store # pre),
                  !.gas = msg.gas, !.create = msg.create,
                  !.enableCreate = msg.enableCreate, !.enableCall = msg.enableCall,
                  !.availableRefund = availableRefund,
                  !.temporaryGasUsed = temporaryGasUsed,
                  !.refundQuotient = RefundQuotientEIP3529,
                  !.gasRefund = gasRefund.refund,
                  !.leftoverGas = leftoverGas + gasRefund.refund,
                  !.meter = meter,
                  !.cumulativeGasUsed = CumulativeGasUsed(res.gasUsed, meter),
                  !.receiptLogs = res.logs,
                  !.ethLogs = logs,
                  !.gasMeterConsumed =
                      TransientsAfter(tr, txConfig, logs, bloomReceipt,
                                      res.gasUsed).gasUsed])
    /\ ForgetRequest
    /\ UNCHANGED <<impl, hooks, pre, nreq, txCount, preTr, sdb>>

(***************************************************************************)
(* The State Store's operations.  Every mutating call records a journal    *)
(* entry with the prior value, then applies the new value to the overlay.  *)
(***************************************************************************)
StoreStep(overlay, entries, op) ==
    /\ sdb' = [sdb EXCEPT !.overlay = overlay,
                          !.journal = sdb.journal \o entries,
                          !.ops = sdb.ops + 1,
                          !.last = [NoLast EXCEPT !.op = op]]
    /\ UNCHANGED pipelineVars

set_account(addr, nonce, balance, codeHash) ==
    /\ sdb.ops < MaxOps
    /\ ~SetBalanceFails(balance)
    /\ StoreStep(SetAccount(sdb.overlay, addr, nonce, balance, codeHash),
                 <<JournalEntry("account", addr, "k1", ZeroHash, sdb.overlay)>>,
                 "set_account")

set_code(code) ==
    /\ sdb.ops < MaxOps
    /\ StoreStep(SetCode(sdb.overlay, Keccak256(code), code),
                 <<JournalEntry("code", "a1", "k1", Keccak256(code), sdb.overlay)>>,
                 "set_code")

set_storage(addr, key, value) ==
    /\ sdb.ops < MaxOps
    /\ StoreStep(SetState(sdb.overlay, addr, key, value),
                 <<JournalEntry("storage", addr, key, ZeroHash, sdb.overlay)>>,
                 "set_storage")

destroy_account(addr) ==
    /\ sdb.ops < MaxOps
    /\ StoreStep(DeleteAccount(sdb.overlay, addr),
                 <<JournalEntry("destroy", addr, "k1", ZeroHash, sdb.overlay)>>,
                 "destroy_account")

\* snapshot: a new id, remembering the journal's length.  view is the
\* overlay at that moment, kept to state what revert_to must restore.
snapshot ==
    /\ sdb.ops < MaxOps
    /\ sdb' = [sdb EXCEPT
                 !.validRevisions = Append(sdb.validRevisions,
                     [id |-> sdb.nextRevisionId, journalIndex |-> Len(sdb.journal),
                      view |-> sdb.overlay]),
                 !.nextRevisionId = sdb.nextRevisionId + 1,
                 !.ops = sdb.ops + 1,
                 !.last = [NoLast EXCEPT !.op = "snapshot", !.id = sdb.nextRevisionId]]
    /\ UNCHANGED pipelineVars

\* revert_to: valid for a snapshot that is still on the stack.
revert_to(id) ==
    /\ sdb.ops < MaxOps
    /\ RevisionIndex(sdb.validRevisions, id) > 0
    /\ LET i == RevisionIndex(sdb.validRevisions, id)
           index == sdb.validRevisions[i].journalIndex
       IN  sdb' = [sdb EXCEPT
                     !.overlay = journalRevert(sdb.overlay, sdb.journal, index),
                     !.journal = SubSeq(sdb.journal, 1, index),
                     !.validRevisions = SubSeq(sdb.validRevisions, 1, i - 1),
                     !.retired = sdb.retired
                         \cup {j \in 0..(sdb.nextRevisionId - 1) : j > id},
                     !.ops = sdb.ops + 1,
                     !.last = [op |-> "revert_to", id |-> id,
                               view |-> sdb.validRevisions[i].view,
                               durable |-> sdb.durable,
                               undone |-> Len(sdb.journal) - index,
                               was |-> sdb.overlay]]
    /\ UNCHANGED pipelineVars

\* A commit that flushes the overlay and keeps the journal and its snapshots.
commitKeepsRevisions ==
    /\ sdb.ops < MaxOps
    /\ sdb' = [sdb EXCEPT !.durable = sdb.overlay,
                          !.retired = 0..(sdb.nextRevisionId - 1),
                          !.ops = sdb.ops + 1,
                          !.last = [NoLast EXCEPT !.op = "commit"]]
    /\ UNCHANGED pipelineVars

\* commit: the overlay is written to the durable store in one pass; the
\* flushed range can no longer be reverted.
commit ==
    /\ sdb.ops < MaxOps
    /\ sdb' = [sdb EXCEPT !.durable = sdb.overlay,
                          !.journal = << >>,
                          !.validRevisions = << >>,
                          !.retired = 0..(sdb.nextRevisionId - 1),
                          !.ops = sdb.ops + 1,
                          !.last = [NoLast EXCEPT !.op = "commit"]]
    /\ UNCHANGED pipelineVars

InitStateStore == InitPipeline /\ impl = "statedb" /\ ~hooks /\ sdb = NewStateDB(InitStore)

NextStateStore ==
    \/ \E addr \in Addr, a \in StoreAccounts :
           set_account(addr, a.nonce, a.balance, a.codeHash)
    \/ \E code \in Codes : set_code(code)
    \/ \E addr \in Addr, key \in Keys, value \in Vals : set_storage(addr, key, value)
    \/ \E addr \in Addr : destroy_account(addr)
    \/ snapshot
    \/ \E id \in 0..MaxOps : revert_to(id)
    \/ commit

SpecStateStore == InitStateStore /\ [][NextStateStore]_vars

Next ==
    \/ \E m \in Msgs : KeeperDispatch(m, TRUE, TRUE)
    \/ \E m \in Msgs, enableCreate \in BOOLEAN, enableCall \in BOOLEAN :
           StateDBDispatch(m, enableCreate, enableCall)
    \/ \E req \in Requests : EnclaveQuery(req)
    \/ EnclaveError
    \/ \E res \in FewLogResults, e \in HookEffects, hookErr \in BOOLEAN :
           KeeperReturn(res, e, hookErr, NoMeter)
    \/ \E res \in FewLogResults, e \in HookEffects, hookErr \in BOOLEAN :
           StateDBReturn(res, e, hookErr, 0, NoMeter)

Spec == Init /\ [][Next]_vars

\* The Connector under every request of the catalogue: transactions are
\* dispatched and the enclave runs until it panics or returns an error.
NextConnector ==
    \/ \E m \in CallMsgs : KeeperDispatch(m, TRUE, TRUE)
    \/ \E m \in CallMsgs, enableCreate \in BOOLEAN, enableCall \in BOOLEAN :
           StateDBDispatch(m, enableCreate, enableCall)
    \/ \E req \in Requests : EnclaveQuery(req)
    \/ EnclaveError

SpecConnector == Init /\ [][NextConnector]_vars

\* The pipeline from dispatch to return, the enclave issuing FewRequests.
NextPipeline ==
    \/ \E m \in Msgs : KeeperDispatch(m, TRUE, TRUE)
    \/ \E m \in Msgs, enableCreate \in BOOLEAN, enableCall \in BOOLEAN :
           StateDBDispatch(m, enableCreate, enableCall)
    \/ \E req \in FewRequests : EnclaveQuery(req)
    \/ EnclaveError
    \/ \E res \in FewLogResults, e \in HookEffects, hookErr \in BOOLEAN :
           KeeperReturn(res, e, hookErr, NoMeter)
    \/ \E res \in FewLogResults, e \in HookEffects, hookErr \in BOOLEAN :
           StateDBReturn(res, e, hookErr, 0, NoMeter)

SpecPipeline == Init /\ [][NextPipeline]_vars

\* librustgo.HandleTx returns, with a result or with an error.
HandleTxReturns ==
    \/ EnclaveError
    \/ \E res \in FewLogResults, hookErr \in BOOLEAN :
           KeeperReturn(res, "none", hookErr, NoMeter)
    \/ \E res \in FewLogResults, hookErr \in BOOLEAN :
           StateDBReturn(res, "none", hookErr, 0, NoMeter)

\* The pipeline around an enclave that writes a cell, sends a request of no
\* known variant, and whose call returns.
NextLive ==
    \/ \E m \in Msgs : KeeperDispatch(m, TRUE, TRUE)
    \/ \E m \in Msgs, enableCreate \in BOOLEAN, enableCall \in BOOLEAN :
           StateDBDispatch(m, enableCreate, enableCall)
    \/ \E req \in {r \in FewRequests : r.tag \in {"InsertStorageCell", "Unknown"}} :
           EnclaveQuery(req)
    \/ HandleTxReturns

SpecLive == Init /\ [][NextLive]_vars /\ WF_vars(HandleTxReturns)

\* The amounts TestSetBalance hands to Keeper.SetBalance: one below zero,
\* zero, and the balances up to MaxBalance.
Amounts == (0 - 1)..MaxBalance

ErrInvalidBalance == "invalid balance"

\* Keeper.SetBalance called on ctx ahead of the transactions, as
\* TestSetBalance and the deposits of the transfer tests do: the error or the
\* new balance, on record.
KeeperSetBalance(addr, amount) ==
    /\ pc = "idle" /\ txCount = 0
    /\ lastReq' = Req("SetBalance", addr, << >>, << >>, 0, "k1", amount)
    /\ reqPre' = ctx
    /\ IF SetBalanceFails(amount)
       THEN /\ lastResp' = ErrResp(ErrInvalidBalance)
            /\ ctx' = ctx
       ELSE /\ lastResp' = OkResp
            /\ ctx' = SetBalance(ctx, addr, amount)
    /\ reqPost' = ctx'
    /\ UNCHANGED <<impl, hooks, cached, tmpCtx, stateDB, pc, msg, pre, nreq,
                   queryFailed, txCount, tr, preTr, out, sdb>>

\* The Keeper's balances, set directly and through the Connector.
NextKeeper ==
    \/ \E addr \in Addr, amount \in Amounts : KeeperSetBalance(addr, amount)
    \/ \E m \in CallMsgs : KeeperDispatch(m, TRUE, TRUE)
    \/ \E m \in CallMsgs, enableCreate \in BOOLEAN, enableCall \in BOOLEAN :
           StateDBDispatch(m, enableCreate, enableCall)
    \/ \E req \in {r \in Requests : r.tag \in {"InsertAccount", "GetAccount"}} :
           EnclaveQuery(req)
    \/ EnclaveError

SpecKeeper == Init /\ [][NextKeeper]_vars

\* TestSuicide's setup: two contracts with the same code, each with state.
TwoContractsStore ==
    LET coded == SetCode(EmptyStore, Keccak256(MaxCode), MaxCode)
        first == SetAccount(coded, "a1", 0, MaxBalance, Keccak256(MaxCode))
        second == SetAccount(first, "a2", 0, MaxBalance, Keccak256(MaxCode))
    IN  SetState(SetState(second, "a1", "k1", MaxVal), "a2", "k1", MaxVal)

\* The Keeper before any transaction, its context holding store s.
InitAt(s) ==
    /\ impl \in {"keeper", "statedb"}
    /\ hooks \in BOOLEAN
    /\ ctx = s
    /\ cached = FALSE
    /\ tmpCtx = EmptyStore
    /\ stateDB = EmptyStore
    /\ pc = "idle"
    /\ msg = NoMsg
    /\ pre = s
    /\ nreq = 0
    /\ lastReq = NoReq
    /\ lastResp = NoResp
    /\ reqPre = EmptyStore
    /\ reqPost = EmptyStore
    /\ queryFailed = FALSE
    /\ txCount = 0
    /\ tr = InitTransients
    /\ preTr = InitTransients
    /\ out = NoOut
    /\ sdb = NoStateDB

InitContracts == InitAt(TwoContractsStore)

\* The Connector under every request, on a state holding two contracts that
\* share one code blob.
SpecContracts == InitContracts /\ [][NextConnector]_vars

\* TestNativeCurrencyTransfer: the sender is given a deposit larger than any
\* amount it transfers.
Deposit == MaxBalance + 1
TransferAmounts == 1..MaxBalance

DepositStore == SetBalance(InitStore, "a1", Deposit)

InitTransfer == InitAt(DepositStore)

\* What the enclave asks of the Connector for a value transfer from a1 to a2:
\* it reads the two accounts, debits the sender and credits the receiver.
TransferRequests ==
    {AddrReq("GetAccount", a) : a \in Addr}
    \cup {Req("InsertAccount", "a1", BigIntBytes(Deposit - amount),
              BigIntBytes(MaxNonce), 0, "k1", 0) : amount \in TransferAmounts}
    \cup {Req("InsertAccount", "a2", BigIntBytes(amount), << >>, 0, "k1", 0) :
              amount \in TransferAmounts}

\* The pipeline around an enclave that executes value transfers; the hooks,
\* when set, look at the receipt and leave the state alone.
NextTransfer ==
    \/ \E m \in CallMsgs : KeeperDispatch(m, TRUE, TRUE)
    \/ \E m \in CallMsgs, enableCreate \in BOOLEAN, enableCall \in BOOLEAN :
           StateDBDispatch(m, enableCreate, enableCall)
    \/ \E req \in TransferRequests : EnclaveQuery(req)
    \/ EnclaveError
    \/ \E res \in FewLogResults, hookErr \in BOOLEAN : KeeperReturn(res, "none", hookErr, NoMeter)
    \/ \E res \in FewLogResults, hookErr \in BOOLEAN : StateDBReturn(res, "none", hookErr, 0, NoMeter)

SpecTransfer == InitTransfer /\ [][NextTransfer]_vars

ErrDivideByZero == "runtime error: integer divide by zero"

\* keeper.GasToRefund called on its own, as TestGasToRefund does on a fresh
\* suite with the refund counter of a StateDB: the refund or the panic, on
\* record.
GasToRefundCall(availableRefund, gasConsumed, refundQuotient) ==
    /\ pc = "idle" /\ txCount = 0 /\ out = NoOut
    /\ LET r == GasToRefund(availableRefund, gasConsumed, refundQuotient)
       IN  out' = [NoOut EXCEPT !.kind = "GasToRefund",
                                !.err = IF r.panic THEN ErrDivideByZero ELSE "",
                                !.availableRefund = availableRefund,
                                !.temporaryGasUsed = gasConsumed,
                                !.refundQuotient = refundQuotient,
                                !.gasRefund = r.refund]
    /\ UNCHANGED <<impl, hooks, ctx, cached, tmpCtx, stateDB, pc, msg, pre, nreq,
                   lastReq, lastResp, reqPre, reqPost, queryFailed, txCount, tr,
                   preTr, sdb>>

\* Keeper.GetEthIntrinsicGas called on its own, as TestGetEthIntrinsicGas does
\* on a fresh suite at a given block height: the gas, on record with its
\* inputs.
GetEthIntrinsicGasCall ==
    /\ pc = "idle" /\ txCount = 0 /\ out = NoOut
    /\ \E data \in DataSeqs, accessList \in AccessLists, height \in Heights,
          isContractCreation \in BOOLEAN :
           out' = [kind |-> "GetEthIntrinsicGas", data |-> data,
                   accessList |-> accessList, height |-> height,
                   create |-> isContractCreation,
                   gas |-> IntrinsicGas(data, accessList, isContractCreation,
                                        height >= HomesteadBlock,
                                        height >= IstanbulBlock)]
    /\ UNCHANGED <<impl, hooks, ctx, cached, tmpCtx, stateDB, pc, msg, pre, nreq,
                   lastReq, lastResp, reqPre, reqPost, queryFailed, txCount, tr,
                   preTr, sdb>>

\* What the enclave returns in SpecGas: the base gas or the whole gas limit
\* used, with or without a VM error, no logs.
GasResults ==
    [gasUsed : {TxGas, TxGasContractCreation}, vmError : VmErrors, logs : {<< >>}]

\* What the enclave asks in SpecGas: a read and a storage write.
GasRequests ==
    {AddrReq("GetAccount", "a1"),
     Req("InsertStorageCell", "a1", << >>, << >>, 0, "k1", MaxVal)}

\* The gas accounting: GasToRefund on its own, and the pipeline with every
\* refund counter the StateDB may hold when the enclave has returned.
NextGas ==
    \/ \E availableRefund \in Refunds, gasConsumed \in 0..MaxGasConsumed,
          refundQuotient \in 0..MaxQuotient :
           GasToRefundCall(availableRefund, gasConsumed, refundQuotient)
    \/ GetEthIntrinsicGasCall
    \/ \E m \in Msgs : KeeperDispatch(m, TRUE, TRUE)
    \/ \E m \in Msgs, enableCreate \in BOOLEAN, enableCall \in BOOLEAN :
           StateDBDispatch(m, enableCreate, enableCall)
    \/ \E req \in GasRequests : EnclaveQuery(req)
    \/ EnclaveError
    \/ \E res \in GasResults, hookErr \in BOOLEAN : KeeperReturn(res, "none", hookErr, NoMeter)
    \/ \E res \in GasResults, hookErr \in BOOLEAN, availableRefund \in Refunds :
           StateDBReturn(res, "none", hookErr, availableRefund, NoMeter)

SpecGas == Init /\ [][NextGas]_vars

\* What the enclave returns in SpecReceipt: the least or the largest gas used
\* of the range, no VM error, no logs.
ReceiptResults ==
    [gasUsed : {1, Uint64Modulus - 1}, vmError : {""}, logs : {<< >>}]

\* The receipt of a transaction in a block whose gas meter holds any limit
\* and any gas consumed so far.
NextReceipt ==
    \/ \E m \in CallMsgs : KeeperDispatch(m, TRUE, TRUE)
    \/ \E m \in CallMsgs, enableCreate \in BOOLEAN, enableCall \in BOOLEAN :
           StateDBDispatch(m, enableCreate, enableCall)
    \/ EnclaveQuery(AddrReq("GetAccount", "a1"))
    \/ EnclaveError
    \/ \E res \in ReceiptResults, meter \in Meters :
           KeeperReturn(res, "none", FALSE, meter)
    \/ \E res \in ReceiptResults, meter \in Meters :
           StateDBReturn(res, "none", FALSE, 0, meter)

SpecReceipt == Init /\ [][NextReceipt]_vars

\* The pipeline around an enclave that returns any logs, with or without a
\* VM error; the hooks, when set, leave the state alone and may fail.
NextLogs ==
    \/ \E m \in CallMsgs : KeeperDispatch(m, TRUE, TRUE)
    \/ \E m \in CallMsgs, enableCreate \in BOOLEAN, enableCall \in BOOLEAN :
           StateDBDispatch(m, enableCreate, enableCall)
    \/ EnclaveQuery(AddrReq("GetAccount", "a1"))
    \/ EnclaveError
    \/ \E res \in HandleTxResults, hookErr \in BOOLEAN :
           KeeperReturn(res, "none", hookErr, NoMeter)
    \/ \E res \in HandleTxResults, hookErr \in BOOLEAN :
           StateDBReturn(res, "none", hookErr, 0, NoMeter)

SpecLogs == Init /\ [][NextLogs]_vars

\* Enclave results whose gas used is within the gas limit of the message or
\* above it.
RefundResults ==
    [gasUsed : {TxGas, TxGasContractCreation + 1}, vmError : {""}, logs : {<< >>}]

\* Transactions whose gas used the enclave reports freely.
NextRefund ==
    \/ \E m \in CallMsgs : KeeperDispatch(m, TRUE, TRUE)
    \/ \E m \in CallMsgs, enableCreate \in BOOLEAN, enableCall \in BOOLEAN :
           StateDBDispatch(m, enableCreate, enableCall)
    \/ EnclaveQuery(AddrReq("GetAccount", "a1"))
    \/ EnclaveError
    \/ \E res \in RefundResults, hookErr \in BOOLEAN :
           KeeperReturn(res, "none", hookErr, NoMeter)
    \/ \E res \in RefundResults, hookErr \in BOOLEAN, availableRefund \in 0..MaxRefund :
           StateDBReturn(res, "none", hookErr, availableRefund, NoMeter)

SpecRefund == Init /\ [][NextRefund]_vars

\* The pipeline under every setting of the EnableCreate and EnableCall
\* parameters, for calls and creations, around an enclave that writes.
NextParams ==
    \/ \E m \in Msgs, enableCreate \in BOOLEAN, enableCall \in BOOLEAN :
           KeeperDispatch(m, enableCreate, enableCall)
    \/ \E m \in Msgs, enableCreate \in BOOLEAN, enableCall \in BOOLEAN :
           StateDBDispatch(m, enableCreate, enableCall)
    \/ \E req \in FewRequests : EnclaveQuery(req)
    \/ EnclaveError
    \/ \E res \in FewLogResults : KeeperReturn(res, "none", FALSE, NoMeter)
    \/ \E res \in FewLogResults : StateDBReturn(res, "none", FALSE, 0, NoMeter)

SpecParams == Init /\ [][NextParams]_vars

(***************************************************************************)
(* The encryption layer (package deoxys): key derivation, sealing of       *)
(* storage values, and encryption between two Curve25519 key pairs.  The   *)
(* primitives are ideal: a derived key is the pair it was derived from, a  *)
(* tag is the triple it authenticates.                                     *)
(***************************************************************************)
MaxMasterKey == 1
MaxPlain == 3
MaxSealNonce == 1
MaxPrivateKey == 3
GroupModulus == 11
BasePoint == 2

MasterKeys == 0..MaxMasterKey
\* a 32-byte value
Plaintexts == 0..MaxPlain
PlainModulus == MaxPlain + 1
\* the nonce EncryptState and EncryptECDH draw at random
SealNonces == 0..MaxSealNonce
PrivateKeys == 1..MaxPrivateKey

SaltNumber(salt) == CASE salt = "a1" -> 1 [] salt = "a2" -> 2 [] OTHER -> 3

DeriveEncryptionKey(masterKey, salt) == [secret |-> masterKey, salt |-> salt]

\* What the cipher adds to the plaintext under a key and a nonce.
Keystream(key, nonce) ==
    (key.secret + SaltNumber(key.salt) + nonce + 1) % PlainModulus

Tag(key, nonce, body) == <<key, nonce, body>>

SealForgetsNonce(key, nonce, plaintext) ==
    LET body == (plaintext + Keystream(key, nonce)) % PlainModulus
    IN  [nonce |-> 0, body |-> body, tag |-> Tag(key, nonce, body)]

\* The sealed value: the nonce, the encrypted body and the tag over both.
Seal(key, nonce, plaintext) ==
    LET body == (plaintext + Keystream(key, nonce)) % PlainModulus
    IN  [nonce |-> nonce, body |-> body, tag |-> Tag(key, nonce, body)]

DecryptError == [err |-> TRUE, value |-> << >>]

OpenUnchecked(key, ciphertext) ==
    [err |-> FALSE,
     value |-> <<(ciphertext.body + PlainModulus
                     - Keystream(key, ciphertext.nonce)) % PlainModulus>>]

\* Opening checks the tag before it gives the plaintext out.
Open(key, ciphertext) ==
    IF ciphertext.tag # Tag(key, ciphertext.nonce, ciphertext.body)
    THEN DecryptError
    ELSE [err |-> FALSE,
          value |-> <<(ciphertext.body + PlainModulus
                          - Keystream(key, ciphertext.nonce)) % PlainModulus>>]

EncryptState(masterKey, contractAddress, storageValue, nonce) ==
    Seal(DeriveEncryptionKey(masterKey, contractAddress), nonce, storageValue)

DecryptState(masterKey, contractAddress, encryptedState) ==
    Open(DeriveEncryptionKey(masterKey, contractAddress), encryptedState)

RECURSIVE Power(_, _)
Power(base, exponent) ==
    IF exponent = 0 THEN 1
    ELSE (base * Power(base, exponent - 1)) % GroupModulus

GetCurve25519PublicKey(privateKey) == Power(BasePoint, privateKey)

DeriveSharedSecretOneSided(privateKey, publicKey) ==
    (publicKey + privateKey) % GroupModulus

\* The Diffie-Hellman secret of one side's private and the other's public key.
DeriveSharedSecret(privateKey, publicKey) == Power(publicKey, privateKey)

EncryptECDH(privateKey, publicKey, data, nonce) ==
    Seal(DeriveEncryptionKey(DeriveSharedSecret(privateKey, publicKey), "ecdh"),
         nonce, data)

DecryptECDH(privateKey, publicKey, encryptedData) ==
    Open(DeriveEncryptionKey(DeriveSharedSecret(privateKey, publicKey), "ecdh"),
         encryptedData)

\* TestStateEncryption, for every key, address, value and nonce.
EncryptStateCall ==
    /\ pc = "idle" /\ txCount = 0 /\ out = NoOut
    /\ \E masterKey \in MasterKeys, contractAddress \in Addr,
          storageValue \in Plaintexts, nonce \in SealNonces :
           out' = [kind |-> "EncryptState", masterKey |-> masterKey,
                   contractAddress |-> contractAddress,
                   storageValue |-> storageValue, tampered |-> FALSE,
                   encryptedState |->
                       EncryptState(masterKey, contractAddress, storageValue, nonce)]
    /\ UNCHANGED <<impl, hooks, ctx, cached, tmpCtx, stateDB, pc, msg, pre, nreq,
                   lastReq, lastResp, reqPre, reqPost, queryFailed, txCount, tr,
                   preTr, sdb>>

\* Someone without the key changes one part of the stored ciphertext.
Tamper ==
    /\ out.kind = "EncryptState" /\ ~out.tampered
    /\ LET c == out.encryptedState
       IN  \E t \in [nonce : SealNonces, body : Plaintexts, tag : {c.tag}]
                    \cup {[c EXCEPT !.tag = Tag(c.tag[1], n, b)] :
                              n \in SealNonces, b \in Plaintexts} :
               /\ t # c
               /\ out' = [out EXCEPT !.tampered = TRUE, !.encryptedState = t]
    /\ UNCHANGED <<impl, hooks, ctx, cached, tmpCtx, stateDB, pc, msg, pre, nreq,
                   lastReq, lastResp, reqPre, reqPost, queryFailed, txCount, tr,
                   preTr, sdb>>

DecryptStateCall ==
    /\ out.kind = "EncryptState"
    /\ \E masterKey \in MasterKeys, contractAddress \in Addr :
           out' = [kind |-> "DecryptState", masterKey |-> out.masterKey,
                   contractAddress |-> out.contractAddress,
                   storageValue |-> out.storageValue, tampered |-> out.tampered,
                   encryptedState |-> out.encryptedState,
                   decryptMasterKey |-> masterKey,
                   decryptAddress |-> contractAddress,
                   decrypted |->
                       DecryptState(masterKey, contractAddress, out.encryptedState)]
    /\ UNCHANGED <<impl, hooks, ctx, cached, tmpCtx, stateDB, pc, msg, pre, nreq,
                   lastReq, lastResp, reqPre, reqPost, queryFailed, txCount, tr,
                   preTr, sdb>>

\* TestECDHEncryption, for every two private keys, value and nonce.
EncryptECDHCall ==
    /\ pc = "idle" /\ txCount = 0 /\ out = NoOut
    /\ \E userPrivateKey \in PrivateKeys, nodePrivateKey \in PrivateKeys,
          data \in Plaintexts, nonce \in SealNonces :
           out' = [kind |-> "EncryptECDH", userPrivateKey |-> userPrivateKey,
                   nodePrivateKey |-> nodePrivateKey, data |-> data,
                   encryptedData |->
                       EncryptECDH(userPrivateKey,
                                   GetCurve25519PublicKey(nodePrivateKey),
                                   data, nonce)]
    /\ UNCHANGED <<impl, hooks, ctx, cached, tmpCtx, stateDB, pc, msg, pre, nreq,
                   lastReq, lastResp, reqPre, reqPost, queryFailed, txCount, tr,
                   preTr, sdb>>

DecryptECDHCall ==
    /\ out.kind = "EncryptECDH"
    /\ out' = [kind |-> "DecryptECDH", userPrivateKey |-> out.userPrivateKey,
               nodePrivateKey |-> out.nodePrivateKey, data |-> out.data,
               encryptedData |-> out.encryptedData,
               decryptedDataOnNode |->
                   DecryptECDH(out.nodePrivateKey,
                               GetCurve25519PublicKey(out.userPrivateKey),
                               out.encryptedData),
               decryptedDataOnUser |->
                   DecryptECDH(out.userPrivateKey,
                               GetCurve25519PublicKey(out.nodePrivateKey),
                               out.encryptedData)]
    /\ UNCHANGED <<impl, hooks, ctx, cached, tmpCtx, stateDB, pc, msg, pre, nreq,
                   lastReq, lastResp, reqPre, reqPost, queryFailed, txCount, tr,
                   preTr, sdb>>

NextCrypto ==
    \/ EncryptStateCall
    \/ Tamper
    \/ DecryptStateCall
    \/ EncryptECDHCall
    \/ DecryptECDHCall

SpecCrypto == Init /\ [][NextCrypto]_vars

(***************************************************************************)
(* Node bootstrap: the seed command of the attestation module asks a seed  *)
(* node for the master key (librustgo.RequestSeed).                        *)
(***************************************************************************)
\* The remote-attestation evidence the joining node presents.
Attestations == {"valid", "invalid", "missing"}

\* The seed node: it verifies the attestation, and only then computes the
\* shared secret and returns the master key encrypted under it.
SeedNodeShare(attestation, seedPrivateKey, joinerPublicKey, masterKey, nonce) ==
    IF attestation # "valid"
    THEN [refused |-> TRUE, sharedSecretComputed |-> FALSE, ciphertext |-> << >>]
    ELSE [refused |-> FALSE, sharedSecretComputed |-> TRUE,
          ciphertext |-> <<EncryptECDH(seedPrivateKey, joinerPublicKey,
                                       masterKey, nonce)>>]

\* librustgo.RequestSeed on the joining node: it sends its public key with
\* the attestation and decrypts what the seed node returns.
RequestSeed(attestation, joinerPrivateKey, seedPrivateKey, masterKey, nonce) ==
    LET reply == SeedNodeShare(attestation, seedPrivateKey,
                               GetCurve25519PublicKey(joinerPrivateKey),
                               masterKey, nonce)
        opened == IF reply.refused THEN DecryptError
                  ELSE DecryptECDH(joinerPrivateKey,
                                   GetCurve25519PublicKey(seedPrivateKey),
                                   reply.ciphertext[1])
    IN  [err |-> reply.refused \/ opened.err,
         sharedSecretComputed |-> reply.sharedSecretComputed,
         ciphertext |-> reply.ciphertext,
         masterKey |-> opened.value]

NoRequestSeed ==
    [err |-> TRUE, sharedSecretComputed |-> FALSE, ciphertext |-> << >>,
     masterKey |-> << >>]

GetSeedCmdAlwaysReady(portOk, seed) == TRUE

\* Whether the seed command prints that the node is ready for work.
GetSeedCmdReady(portOk, seed) == portOk /\ ~seed.err

\* RunE of the seed command: an unparsable port returns before the request.
GetSeedCmd ==
    /\ pc = "idle" /\ txCount = 0 /\ out = NoOut
    /\ \E portOk \in BOOLEAN, attestation \in Attestations,
          joinerPrivateKey \in PrivateKeys, seedPrivateKey \in PrivateKeys,
          masterKey \in MasterKeys, nonce \in SealNonces :
           LET seed == IF portOk
                       THEN RequestSeed(attestation, joinerPrivateKey,
                                        seedPrivateKey, masterKey, nonce)
                       ELSE NoRequestSeed
           IN  out' = [kind |-> "GetSeedCmd", portOk |-> portOk,
                       attestation |-> attestation,
                       joinerPrivateKey |-> joinerPrivateKey,
                       seedPrivateKey |-> seedPrivateKey,
                       seedMasterKey |-> masterKey,
                       err |-> ~portOk \/ seed.err,
                       ready |-> GetSeedCmdReady(portOk, seed),
                       sharedSecretComputed |-> seed.sharedSecretComputed,
                       ciphertext |-> seed.ciphertext,
                       masterKey |-> seed.masterKey,
                       processed |-> FALSE]
    /\ UNCHANGED <<impl, hooks, ctx, cached, tmpCtx, stateDB, pc, msg, pre, nreq,
                   lastReq, lastResp, reqPre, reqPost, queryFailed, txCount, tr,
                   preTr, sdb>>

\* A transaction that needs confidential state, on the node after the seed
\* command: the enclave can open the state only with the master key.
ConfidentialTx ==
    /\ out.kind = "GetSeedCmd"
    /\ out' = [out EXCEPT !.kind = "ConfidentialTx",
                          !.processed = (out.masterKey # << >>)]
    /\ UNCHANGED <<impl, hooks, ctx, cached, tmpCtx, stateDB, pc, msg, pre, nreq,
                   lastReq, lastResp, reqPre, reqPost, queryFailed, txCount, tr,
                   preTr, sdb>>

NextSeed ==
    \/ GetSeedCmd
    \/ ConfidentialTx

SpecSeed == Init /\ [][NextSeed]_vars

\* common.Hash{}: the hash of zeroes.
EmptyHash == 0

\* state_object.go: the TransactionContext handed to the enclave, its block
\* facts read from the context and its block hash left empty.
createSGXVMConfig ==
    [blockNumber |-> BlockHeight, timestamp |-> BlockTime, chainId |-> ChainID,
     blockHash |-> EmptyHash]

\* The StateDB-backed pipeline's TransactionContext: no block hash is set.
CreateSGXVMContext ==
    [blockNumber |-> BlockHeight, timestamp |-> BlockTime, chainId |-> ChainID]

\* The txContext argument of librustgo.HandleTx.
txContext ==
    IF impl = "keeper" THEN createSGXVMConfig ELSE CreateSGXVMContext

\* The block numbers a BlockHash request asks for (QueryBlockHash.Number,
\* carried in value): the current block and earlier ones.
BlockNumbers == {0, BlockHeight - 1, BlockHeight}

BlockTags == {"BlockHash", "BlockTimestamp", "BlockNumber", "ChainId"}

BlockRequests ==
    {Req("BlockHash", "a1", << >>, << >>, 0, "k1", n) : n \in BlockNumbers}
    \cup {AddrReq(t, "a1") : t \in BlockTags \ {"BlockHash"}}

\* The pipeline around an enclave that writes and asks for the block facts.
NextBlock ==
    \/ \E m \in CallMsgs : KeeperDispatch(m, TRUE, TRUE)
    \/ \E m \in CallMsgs : StateDBDispatch(m, TRUE, TRUE)
    \/ \E req \in FewRequests \cup BlockRequests : EnclaveQuery(req)
    \/ EnclaveError
    \/ \E res \in FewLogResults : KeeperReturn(res, "none", FALSE, NoMeter)
    \/ \E res \in FewLogResults : StateDBReturn(res, "none", FALSE, 0, NoMeter)

SpecBlock == Init /\ [][NextBlock]_vars

(***************************************************************************)
(* Keeper.ForEachStorage: the stored cells of one address, in the order of *)
(* the ledger's keys, handed to a visitor until it returns false.          *)
(***************************************************************************)
\* The storage keys of TestForEachStorage, in ledger order.
CellKeys == <<"k1", "k2", "k3">>
CellKeySet == {CellKeys[i] : i \in 1..Len(CellKeys)}

\* A visitor is told by the keys at which it returns false.
Visitors == SUBSET CellKeySet

RECURSIVE ForEachFrom(_, _, _, _)
ForEachFrom(s, addr, stopKeys, i) ==
    IF i > Len(CellKeys) THEN << >>
    ELSE LET key == CellKeys[i]
             value == GetState(s, addr, key)
         IN  IF value = 0 THEN ForEachFrom(s, addr, stopKeys, i + 1)
             ELSE IF key \in stopKeys THEN <<[key |-> key, value |-> value]>>
             ELSE <<[key |-> key, value |-> value]>>
                      \o ForEachFrom(s, addr, stopKeys, i + 1)

ForEachStorageNoStop(s, addr, stopKeys) == ForEachFrom(s, addr, {}, 1)

\* The visits ForEachStorage makes, in order.
ForEachStorage(s, addr, stopKeys) == ForEachFrom(s, addr, stopKeys, 1)

\* suite.address and a second account, no cell stored yet.
CellStore ==
    [SetAccount(InitStore, "a2", 0, 0, emptyCodeHash) EXCEPT
        !.storage = [a \in Addr |-> [k \in CellKeySet |-> 0]]]

InitCells == InitAt(CellStore)

\* Keeper.SetState called on ctx, as the tests do before they iterate.
KeeperSetState(addr, key, value) ==
    /\ pc = "idle" /\ txCount = 0
    /\ ctx' = SetState(ctx, addr, key, value)
    /\ ctx' # ctx
    /\ out' = NoOut
    /\ UNCHANGED <<impl, hooks, cached, tmpCtx, stateDB, pc, msg, pre, nreq,
                   lastReq, lastResp, reqPre, reqPost, queryFailed, txCount, tr,
                   preTr, sdb>>

\* Keeper.DeleteAccount called on ctx (TestSuicide).
KeeperDeleteAccount(addr) ==
    /\ pc = "idle" /\ txCount = 0
    /\ ctx' = DeleteAccount(ctx, addr)
    /\ ctx' # ctx
    /\ out' = NoOut
    /\ UNCHANGED <<impl, hooks, cached, tmpCtx, stateDB, pc, msg, pre, nreq,
                   lastReq, lastResp, reqPre, reqPost, queryFailed, txCount, tr,
                   preTr, sdb>>

ForEachStorageCall ==
    /\ pc = "idle" /\ txCount = 0 /\ out = NoOut
    /\ \E addr \in Addr, stopKeys \in Visitors :
           out' = [kind |-> "ForEachStorage", addr |-> addr,
                   stopKeys |-> stopKeys,
                   visits |-> ForEachStorage(ctx, addr, stopKeys)]
    /\ UNCHANGED <<impl, hooks, ctx, cached, tmpCtx, stateDB, pc, msg, pre, nreq,
                   lastReq, lastResp, reqPre, reqPost, queryFailed, txCount, tr,
                   preTr, sdb>>

NextCells ==
    \/ \E addr \in Addr, key \in CellKeySet, value \in Vals :
           KeeperSetState(addr, key, value)
    \/ \E addr \in Addr : KeeperDeleteAccount(addr)
    \/ ForEachStorageCall

SpecCells == InitCells /\ [][NextCells]_vars

(***************************************************************************)
(* Properties.                                                             *)
(***************************************************************************)
\* The request on record was served and did not panic.
Served(tag) == lastReq.tag = tag /\ lastResp.status # "panic"

\* C1: after revert_to(id), whatever State Store mutations followed
\* snapshot() = id, the overlay (accounts, balances, code, storage) is what it
\* was at the snapshot, and the durable store is what it was before the revert.
C1_RevertRestoresSnapshot ==
    sdb.last.op = "revert_to" =>
        /\ sdb.overlay = sdb.last.view
        /\ sdb.durable = sdb.last.durable

\* A revert that undid at least two mutations and changed an overlay that
\* held changes the durable store does not have.
C1_Witness ==
    /\ sdb.last.op = "revert_to"
    /\ sdb.last.undone >= 2
    /\ sdb.last.was # sdb.last.view
    /\ sdb.last.was # sdb.durable
    /\ sdb.overlay = sdb.last.view

\* C2: when the enclave reported no VM error and a post-processing hook
\* failed, the parent context holds none of the transaction's effects, the
\* response's vm_error is the post-processing error and its logs are empty.
C2_FailedHookDiscardsTransaction ==
    (out.kind = "response" /\ out.enclaveVmError = "" /\ out.hookFailed) =>
        /\ ctx = pre
        /\ out.vmError = ErrPostTxProcessing
        /\ out.logs = << >>

\* A hook failed after a VM call that succeeded, wrote state and emitted logs.
C2_Witness ==
    /\ out.kind = "response"
    /\ out.enclaveVmError = ""
    /\ out.hookFailed
    /\ out.effects
    /\ out.enclaveLogs > 0
    /\ ctx = pre
    /\ out.logs = << >>

\* C3: the hooks are invoked exactly when the enclave's result has an empty
\* vm_error, and a result with a vm_error never gets the successful status.
C3_HooksIffNoVmError ==
    out.kind = "response" =>
        /\ out.hooksCalled <=> (out.enclaveVmError = "")
        /\ (out.enclaveVmError # "" => out.status # 1)

\* C4: when the enclave's result has a vm_error, the parent context is as
\* it was when the transaction was dispatched, with or without hooks.
C4_VmErrorPersistsNothing ==
    (out.kind = "response" /\ out.enclaveVmError # "") => ctx = pre

\* C5: when librustgo.HandleTx returns an error, the pipeline returns an
\* error and the parent context holds none of the transaction's writes.
C5_EnclaveErrorLeavesNoWrites ==
    (out.kind = "error" /\ out.enclaveCalled) => ctx = pre

\* C6: a transaction whose gas limit is below its intrinsic gas never reaches
\* the enclave: the pipeline returns the intrinsic-gas error with no cache
\* context opened and the state and the transients unchanged.
C6_IntrinsicGasTooLow ==
    /\ pc = "enclave" => msg.gas >= GetEthIntrinsicGas(msg)
    /\ (out.kind # "none" /\ out.gas < GetEthIntrinsicGas(out)) =>
           /\ out.kind = "error"
           /\ out.err = ErrIntrinsicGas
           /\ ~out.enclaveCalled
           /\ ~out.cacheOpened
           /\ ctx = pre
           /\ tr = preTr

\* C7: a request that does not decode, or decodes to none of the 13 variants,
\* gets an error, leaves the Connector's state as it was, and ends the
\* transaction: the next step is the pipeline returning the enclave's error.
C7_UnrecognizedRequest ==
    [][/\ lastReq' \in BadRequests =>
            /\ lastResp'.status = "error"
            /\ reqPost' = reqPre'
            /\ queryFailed'
       /\ lastReq \in BadRequests =>
            /\ out'.kind = "error"
            /\ out'.err = ErrHandleTx]_vars

\* An undecodable or unknown request was answered, after an earlier write.
C7_Witness ==
    /\ lastReq \in BadRequests
    /\ lastResp.status = "error"
    /\ queryFailed
    /\ reqPre # pre

\* C8: InsertAccountCode for an address without an account returns the
\* "account does not exist" error and writes nothing: the code table and the
\* accounts are as before the request.
C8_InsertAccountCodeNoAccount ==
    (lastReq.tag = "InsertAccountCode" /\ ~reqPre.accounts[lastReq.addr].exists) =>
        /\ lastResp.status = "error"
        /\ lastResp.msg = "cannot insert account code. Account does not exist"
        /\ reqPost.code = reqPre.code
        /\ reqPost.accounts = reqPre.accounts

\* C9: after a successful InsertAccountCode(addr, c) on an existing account,
\* the account's code hash is keccak256(c) and AccountCode(addr) returns c.
C9_InsertAccountCodeThenAccountCode ==
    (Served("InsertAccountCode") /\ lastResp.status = "ok"
        /\ reqPre.accounts[lastReq.addr].exists) =>
        /\ reqPost.accounts[lastReq.addr].codeHash = Keccak256(lastReq.code)
        /\ ServedQuery(reqPost, AddrReq("AccountCode", lastReq.addr)).resp.code
               = lastReq.code

\* C10: after a successful InsertAccount(addr, b, n), GetAccount(addr) on the
\* state it left returns balance b and nonce n, whether or not the account
\* existed before.
C10_InsertAccountThenGetAccount ==
    (Served("InsertAccount") /\ lastResp.status = "ok") =>
        LET got == ServedQuery(reqPost, AddrReq("GetAccount", lastReq.addr)).resp
        IN  /\ got.status = "ok"
            /\ SetBytes(got.balance) = SetBytes(lastReq.balance)
            /\ BigIntUint64(got.nonce) = BigIntUint64(lastReq.nonce)

\* InsertAccount created an account with a balance and a nonce.
C10_Witness ==
    /\ Served("InsertAccount")
    /\ lastResp.status = "ok"
    /\ ~reqPre.accounts[lastReq.addr].exists
    /\ SetBytes(lastReq.balance) = MaxBalance
    /\ BigIntUint64(lastReq.nonce) = MaxNonce
    /\ reqPost.accounts[lastReq.addr].nonce = MaxNonce
    /\ reqPost.bank[lastReq.addr] = MaxBalance

\* What ContainsKey(addr) answers on state s.
ContainsNow(s, addr) == ServedQuery(s, AddrReq("ContainsKey", addr)).resp.contains

\* C11: ContainsKey(addr) answers whether addr has an account: after every
\* request it is true for the address a successful InsertAccount named, false
\* for the one a successful Remove named, and otherwise what it was before the
\* request; the request itself answers with that and changes nothing.
C11_ContainsKeyIffExists ==
    lastReq.tag # "None" =>
        /\ \A a \in Addr :
              ContainsNow(reqPost, a) =
                  IF lastReq.tag = "InsertAccount" /\ lastResp.status = "ok"
                        /\ a = lastReq.addr THEN TRUE
                  ELSE IF lastReq.tag = "Remove" /\ lastResp.status = "ok"
                        /\ a = lastReq.addr THEN FALSE
                  ELSE ContainsNow(reqPre, a)
        /\ lastReq.tag = "ContainsKey" =>
              /\ lastResp.status = "ok"
              /\ lastResp.contains = ContainsNow(reqPre, lastReq.addr)
              /\ reqPost = reqPre

\* ContainsKey answered true for an account inserted in this transaction
\* with zero balance and zero nonce.
C11_Witness ==
    /\ Served("ContainsKey")
    /\ lastResp.contains
    /\ ~pre.accounts[lastReq.addr].exists
    /\ reqPre.bank[lastReq.addr] = 0
    /\ reqPre.accounts[lastReq.addr].nonce = 0

\* What AccountCode(addr) answers on state s.
CodeNow(s, addr) == ServedQuery(s, AddrReq("AccountCode", addr)).resp.code

\* C12: a successful InsertAccount on an address that has an account leaves
\* the account's code hash, the code AccountCode returns for it, the code
\* table and every storage cell as they were before the request.
C12_InsertAccountKeepsCodeAndStorage ==
    (Served("InsertAccount") /\ lastResp.status = "ok"
        /\ reqPre.accounts[lastReq.addr].exists) =>
        /\ reqPost.accounts[lastReq.addr].codeHash
               = reqPre.accounts[lastReq.addr].codeHash
        /\ CodeNow(reqPost, lastReq.addr) = CodeNow(reqPre, lastReq.addr)
        /\ reqPost.code = reqPre.code
        /\ reqPost.storage = reqPre.storage

\* InsertAccount changed balance and nonce of an account that has a code
\* hash and a non-zero storage cell.
C12_Witness ==
    /\ Served("InsertAccount")
    /\ lastResp.status = "ok"
    /\ reqPre.accounts[lastReq.addr].exists
    /\ reqPre.accounts[lastReq.addr].codeHash # ZeroHash
    /\ reqPre.storage[lastReq.addr]["k1"] = MaxVal
    /\ reqPost.bank[lastReq.addr] # reqPre.bank[lastReq.addr]
    /\ reqPost.accounts[lastReq.addr].nonce # reqPre.accounts[lastReq.addr].nonce
    /\ reqPost.storage[lastReq.addr]["k1"] = MaxVal

\* C13: GetAccount for an address without an account succeeds with an empty
\* balance and an empty nonce, and creates nothing: the state is as before
\* and ContainsKey for the address is still false.
C13_GetAccountOfMissing ==
    (lastReq.tag = "GetAccount" /\ ~reqPre.accounts[lastReq.addr].exists) =>
        /\ lastResp.status = "ok"
        /\ SetBytes(lastResp.balance) = 0
        /\ SetBytes(lastResp.nonce) = 0
        /\ lastResp.balance = << >>
        /\ lastResp.nonce = << >>
        /\ reqPost = reqPre
        /\ ~ContainsNow(reqPost, lastReq.addr)

\* GetAccount was served for an address whose account had been removed
\* earlier in the transaction.
C13_Witness ==
    /\ Served("GetAccount")
    /\ lastResp.status = "ok"
    /\ pre.accounts[lastReq.addr].exists
    /\ ~reqPre.accounts[lastReq.addr].exists
    /\ ~reqPost.accounts[lastReq.addr].exists

\* What StorageCell(addr, key) answers on state s.
CellNow(s, addr, key) ==
    ServedQuery(s, Req("StorageCell", addr, << >>, << >>, 0, key, 0)).resp.value

\* C14: storage is a zero-default map per (address, index).  After every
\* request StorageCell answers, for the cell an InsertStorageCell named, the
\* value inserted; for the cell a RemoveStorageCell named and for the cells
\* of an account Remove destroyed, the zero word; for every other cell what
\* it answered before.  StorageCell itself changes nothing, and inserting
\* the zero word leaves the state RemoveStorageCell leaves.
C14_StorageZeroDefault ==
    (lastReq.tag # "None" /\ lastResp.status # "panic") =>
        /\ \A a \in Addr, k \in Keys :
              CellNow(reqPost, a, k) =
                  IF lastReq.tag = "InsertStorageCell" /\ a = lastReq.addr
                        /\ k = lastReq.key THEN lastReq.value
                  ELSE IF lastReq.tag = "RemoveStorageCell" /\ a = lastReq.addr
                        /\ k = lastReq.key THEN 0
                  ELSE IF lastReq.tag = "Remove" /\ a = lastReq.addr
                        /\ reqPre.accounts[a].exists THEN 0
                  ELSE CellNow(reqPre, a, k)
        /\ lastReq.tag = "StorageCell" =>
              /\ lastResp.status = "ok"
              /\ lastResp.value = CellNow(reqPre, lastReq.addr, lastReq.key)
              /\ reqPost = reqPre
        /\ (lastReq.tag = "InsertStorageCell" /\ lastReq.value = 0) =>
              reqPost = ServedQuery(reqPre,
                            Req("RemoveStorageCell", lastReq.addr, << >>, << >>, 0,
                                lastReq.key, 0)).store

\* A cell written earlier in the transaction was cleared, by
\* RemoveStorageCell or by inserting the zero word.
C14_Witness ==
    /\ lastReq.tag \in {"RemoveStorageCell", "InsertStorageCell"}
    /\ lastResp.status = "ok"
    /\ lastReq.value = 0
    /\ pre.storage[lastReq.addr][lastReq.key] = 0
    /\ reqPre.storage[lastReq.addr][lastReq.key] = MaxVal
    /\ CellNow(reqPost, lastReq.addr, lastReq.key) = 0

\* Address addr has no account, no balance, no retrievable code and no
\* storage cell in state s.
Cleared(s, addr) ==
    /\ s.accounts[addr] = NoAccount
    /\ GetBalance(s, addr) = 0
    /\ CodeNow(s, addr) = 0
    /\ \A k \in Keys : CellNow(s, addr, k) = 0

\* C15 as stated: Remove(addr) never fails; after it addr has zero balance,
\* zero nonce, no code hash of its own, no account code and no storage
\* cells, whether or not addr had an account; a second Remove(addr) succeeds
\* and changes nothing.
C15_RemoveClearsAddress ==
    Served("Remove") =>
        /\ lastResp.status = "ok"
        /\ Cleared(reqPost, lastReq.addr)
        /\ ServedQuery(reqPost, lastReq) = Out(reqPost, OkResp)

\* C15 amended: Remove(addr) never fails; when addr had an account everything
\* of it is cleared; when it had none the state is left as it was, storage
\* cells written for addr included; a second Remove(addr) succeeds and
\* changes nothing.
C15_RemoveClearsAccount ==
    Served("Remove") =>
        /\ lastResp.status = "ok"
        /\ IF reqPre.accounts[lastReq.addr].exists
           THEN Cleared(reqPost, lastReq.addr)
           ELSE reqPost = reqPre
        /\ ServedQuery(reqPost, lastReq) = Out(reqPost, OkResp)

\* An account holding a balance and a storage cell was removed.
C15_Witness ==
    /\ Served("Remove")
    /\ reqPre.accounts[lastReq.addr].exists
    /\ GetBalance(reqPre, lastReq.addr) = MaxBalance
    /\ \E k \in Keys : CellNow(reqPre, lastReq.addr, k) = MaxVal
    /\ Cleared(reqPost, lastReq.addr)

\* C16: Remove(A) leaves every other address B as it was: B's account
\* (nonce, code hash), balance, retrievable code and storage cells are the
\* same after the request as before, also when A and B point at one code blob.
C16_RemoveLeavesOthers ==
    Served("Remove") =>
        \A b \in Addr \ {lastReq.addr} :
            /\ reqPost.accounts[b] = reqPre.accounts[b]
            /\ GetBalance(reqPost, b) = GetBalance(reqPre, b)
            /\ CodeNow(reqPost, b) = CodeNow(reqPre, b)
            /\ \A k \in Keys : CellNow(reqPost, b, k) = CellNow(reqPre, b, k)

\* A contract was removed while another contract with the same code hash,
\* code, a balance and a storage cell stayed.
C16_Witness ==
    /\ Served("Remove")
    /\ reqPre.accounts[lastReq.addr].exists
    /\ ~reqPost.accounts[lastReq.addr].exists
    /\ \E b \in Addr \ {lastReq.addr} :
          /\ reqPre.accounts[b].exists
          /\ reqPre.accounts[b].codeHash = reqPre.accounts[lastReq.addr].codeHash
          /\ CodeNow(reqPost, b) = MaxCode
          /\ GetBalance(reqPost, b) = MaxBalance
          /\ CellNow(reqPost, b, "k1") = MaxVal

\* C17: Keeper.SetBalance with a negative amount fails with an invalid-balance
\* error and leaves every balance as it was; with a non-negative amount it
\* succeeds and the balance read back is that amount, above or below the
\* previous one.  InsertAccount, which can only carry a non-negative balance,
\* succeeds and the balance read back is the one it carried.
C17_SetBalance ==
    /\ lastReq.tag = "SetBalance" =>
          IF lastReq.value < 0
          THEN /\ lastResp = ErrResp(ErrInvalidBalance)
               /\ reqPost = reqPre
          ELSE /\ lastResp.status = "ok"
               /\ GetBalance(reqPost, lastReq.addr) = lastReq.value
               /\ \A b \in Addr \ {lastReq.addr} :
                      GetBalance(reqPost, b) = GetBalance(reqPre, b)
    /\ Served("InsertAccount") =>
          /\ lastResp.status = "ok"
          /\ SetBytes(lastReq.balance) >= 0
          /\ GetBalance(reqPost, lastReq.addr) = SetBytes(lastReq.balance)

\* A negative amount was refused for an account with funds.
C17_Witness ==
    /\ lastReq.tag = "SetBalance"
    /\ lastReq.value < 0
    /\ lastResp.status = "error"
    /\ GetBalance(reqPre, lastReq.addr) = MaxBalance
    /\ GetBalance(reqPost, lastReq.addr) = MaxBalance

\* The enclave has moved amount from a1 to a2 in the state it works on.
Transferred(amount) ==
    /\ pc = "enclave"
    /\ GetBalance(pre, "a1") > amount
    /\ GetBalance(ConnectorState, "a1") = GetBalance(pre, "a1") - amount
    /\ GetBalance(ConnectorState, "a2") = GetBalance(pre, "a2") + amount

\* C18: when the pipeline returns the response of a value transfer of A from
\* X (balance B > A) to Y that the enclave executed without a VM error and
\* no hook refused, then balance(Y) has grown by exactly A and balance(X)
\* has shrunk by exactly A (the fee is charged outside the pipeline), the
\* sum of the two is what it was, gas_used is the base transaction gas and
\* the response is not failed.
C18_TransferMovesValue ==
    [][\A amount \in TransferAmounts :
          (/\ Transferred(amount)
           /\ out'.kind = "response"
           /\ out'.enclaveVmError = ""
           /\ ~out'.hookFailed)
          => /\ GetBalance(ctx', "a2") = GetBalance(pre, "a2") + amount
             /\ GetBalance(ctx', "a1") = GetBalance(pre, "a1") - amount
             /\ GetBalance(ctx', "a1") + GetBalance(ctx', "a2")
                    = GetBalance(pre, "a1") + GetBalance(pre, "a2")
             /\ out'.gasUsed = TxGas
             /\ out'.vmError = ""]_vars

\* The smaller of two numbers.
Min(a, b) == CHOOSE m \in {a, b} : m <= a /\ m <= b

\* C19: for a quotient above zero GasToRefund returns
\* min(availableRefund, gasConsumed / quotient), the division rounding down,
\* so the result exceeds neither; for a zero quotient it panics and returns
\* nothing.
C19_GasToRefund ==
    out.kind = "GasToRefund" =>
        IF out.refundQuotient > 0
        THEN /\ out.err = ""
             /\ \E d \in 0..out.temporaryGasUsed :
                   /\ d * out.refundQuotient <= out.temporaryGasUsed
                   /\ out.temporaryGasUsed < (d + 1) * out.refundQuotient
                   /\ out.gasRefund = Min(out.availableRefund, d)
             /\ out.gasRefund <= out.availableRefund
             /\ out.gasRefund <= out.temporaryGasUsed \div out.refundQuotient
        ELSE out.err = ErrDivideByZero

\* A division that rounds down gave a refund above the available one, and
\* the available refund was returned.
C19_Witness ==
    /\ out.kind = "GasToRefund"
    /\ out.err = ""
    /\ out.refundQuotient > 1
    /\ out.temporaryGasUsed % out.refundQuotient # 0
    /\ out.availableRefund > 0
    /\ out.availableRefund < out.temporaryGasUsed \div out.refundQuotient
    /\ out.gasRefund = out.availableRefund

\* C20: in the response of ApplySGXVMMessage the refund added to the leftover
\* gas is min(refund counter, G / refund quotient), G being the gas the
\* enclave reported used (the gas limit minus the gas left after execution),
\* and the gas_used of the response is the gas limit minus the leftover gas
\* after the refund.
C20_RefundAndGasUsed ==
    (out.kind = "response" /\ impl = "statedb") =>
        /\ out.gasRefund = Min(out.availableRefund,
                               (out.gas - out.refund) \div RefundQuotientEIP3529)
        /\ out.gasUsed = out.gas - out.leftoverGas

\* The positions of data holding a zero byte (zero = TRUE) or a non-zero one.
BytesOf(data, zero) == {i \in 1..Len(data) : (data[i] = 0) = zero}

\* The storage keys of an access list, each told by its entry and its rank.
KeysOf(accessList) ==
    {<<i, j>> \in (1..Len(accessList)) \X (1..MaxStorageKeys) : j <= accessList[i]}

\* C21: GetEthIntrinsicGas is the base constant (TxGasContractCreation for a
\* creation from Homestead on, TxGas otherwise) plus TxDataZeroGas per zero
\* data byte, plus the non-zero cost per non-zero data byte (Frontier before
\* Istanbul, EIP-2028 from Istanbul on), plus TxAccessListAddressGas per
\* access-list entry and TxAccessListStorageKeyGas per storage key; with no
\* data and no access list it is the base constant.
C21_IntrinsicGas ==
    out.kind = "GetEthIntrinsicGas" =>
        LET base == IF out.create /\ out.height >= HomesteadBlock
                    THEN TxGasContractCreation ELSE TxGas
            nonZeroGas == IF out.height >= IstanbulBlock
                          THEN TxDataNonZeroGasEIP2028
                          ELSE TxDataNonZeroGasFrontier
        IN  /\ out.gas = base
                   + Cardinality(BytesOf(out.data, TRUE)) * TxDataZeroGas
                   + Cardinality(BytesOf(out.data, FALSE)) * nonZeroGas
                   + Len(out.accessList) * TxAccessListAddressGas
                   + Cardinality(KeysOf(out.accessList)) * TxAccessListStorageKeyGas
            /\ (out.data = << >> /\ out.accessList = << >>) => out.gas = base

\* A creation from Istanbul on with a zero byte, a non-zero byte and an
\* access-list entry holding a storage key.
C21_Witness ==
    /\ out.kind = "GetEthIntrinsicGas"
    /\ out.create
    /\ out.height = IstanbulBlock
    /\ out.data = <<0, 1>>
    /\ out.accessList = <<MaxStorageKeys>>
    /\ out.gas = TxGasContractCreation + TxDataZeroGas + TxDataNonZeroGasEIP2028
                     + TxAccessListAddressGas
                     + MaxStorageKeys * TxAccessListStorageKeyGas

\* C22: with a block gas meter, the receipt's cumulative gas used is
\* min(block gas limit, gas consumed in the block + the transaction's gas
\* used), the sum taken as the number it is even when it leaves the unsigned
\* range, and it never exceeds the block gas limit.
C22_CumulativeGasUsed ==
    (out.kind = "response" /\ out.meter.present) =>
        /\ out.cumulativeGasUsed
               = Min(out.meter.limit, out.meter.consumed + out.gasUsed)
        /\ out.cumulativeGasUsed <= out.meter.limit

\* C23 as stated: after every transaction the block bloom is the OR of its
\* value before and the bloom of the logs the transaction committed, that is
\* the logs its response keeps.
C23_BloomOfCommittedLogs ==
    out.kind = "response" => tr.bloom = preTr.bloom \cup LogsBloom(out.logs)

\* C23 amended: the block bloom only grows.  After every transaction it is the
\* OR of its value before and the bloom of the logs of the transaction's
\* receipt, kept in the response or not; every bit set before is still set,
\* and a transaction without logs, or one that ended in an error, leaves it
\* as it was.
C23_BloomOnlyGrows ==
    /\ out.kind = "response" =>
          /\ tr.bloom = preTr.bloom \cup LogsBloom(out.receiptLogs)
          /\ preTr.bloom \subseteq tr.bloom
          /\ out.receiptLogs = << >> => tr.bloom = preTr.bloom
    /\ out.kind \in {"error", "panic"} => tr.bloom = preTr.bloom

\* A transaction's logs added a bit to a block bloom that held another.
C23_Witness ==
    /\ out.kind = "response"
    /\ preTr.bloom # {}
    /\ LogsBloom(out.receiptLogs) # {}
    /\ ~(LogsBloom(out.receiptLogs) \subseteq preTr.bloom)
    /\ tr.bloom = LogBits

\* C24: a transaction that ends failed, by a VM error or by a failed hook,
\* has a response with a non-empty vm_error and the gas used, a receipt not
\* marked successful, and keeps none of its logs: the response logs are
\* empty and neither the block bloom nor the block log size has moved.
C24_FailedKeepsNoLogs ==
    (out.kind = "response" /\ (out.enclaveVmError # "" \/ out.hookFailed)) =>
        /\ out.vmError # ""
        /\ out.gasUsed \in GasUsedVals
        /\ out.status = 0
        /\ out.logs = << >>
        /\ tr.bloom = preTr.bloom
        /\ tr.logSize = preTr.logSize

\* The parameters of the transaction switch off what the message asks for:
\* a creation with EnableCreate off, or a call with EnableCall off.
Disabled(m) == IF m.create THEN ~m.enableCreate ELSE ~m.enableCall

\* C25: a creation while creation is disabled, and a call while calls are
\* disabled, is rejected with an error: it never reaches the enclave, the
\* state and the transients are as they were, and the pipeline is idle again
\* for the next transaction.
C25_DisabledRejected ==
    /\ pc = "enclave" => ~Disabled(msg)
    /\ (out.kind # "none" /\ Disabled(out)) =>
           /\ out.kind = "error"
           /\ ~out.enclaveCalled
           /\ ctx = pre
           /\ tr = preTr
           /\ pc = "idle"

\* C26: for every master key, contract address and storage value v,
\* DecryptState under the same master key and address of what EncryptState
\* returned succeeds and returns exactly v.
C26_StateRoundTrip ==
    (/\ out.kind = "DecryptState" /\ ~out.tampered
     /\ out.decryptMasterKey = out.masterKey
     /\ out.decryptAddress = out.contractAddress) =>
        /\ ~out.decrypted.err
        /\ out.decrypted.value = <<out.storageValue>>

C26_Witness ==
    /\ out.kind = "DecryptState" /\ ~out.tampered
    /\ out.decryptMasterKey = out.masterKey
    /\ out.decryptAddress = out.contractAddress
    /\ out.masterKey = MaxMasterKey /\ out.contractAddress = "a2"
    /\ out.storageValue = MaxPlain
    /\ out.encryptedState.body # out.storageValue
    /\ out.decrypted.value = <<MaxPlain>>

\* The ciphertext is one EncryptState returns under this key and address.
SealedUnder(masterKey, contractAddress, c) ==
    \E v \in Plaintexts, n \in SealNonces :
        c = EncryptState(masterKey, contractAddress, v, n)

\* C27: decrypting a ciphertext that was tampered with, or that was made
\* under another master key or another contract address, returns an error
\* and no plaintext; so does every ciphertext EncryptState does not return
\* under the key and address of the decryption.
C27_DecryptFailsClosed ==
    out.kind = "DecryptState" =>
        /\ (\/ out.tampered
            \/ out.decryptMasterKey # out.masterKey
            \/ out.decryptAddress # out.contractAddress) => out.decrypted.err
        /\ ~SealedUnder(out.decryptMasterKey, out.decryptAddress,
                        out.encryptedState) => out.decrypted.err
        /\ out.decrypted.err => out.decrypted.value = << >>

C27_Witness ==
    /\ out.kind = "DecryptState" /\ out.tampered
    /\ out.decryptMasterKey = out.masterKey
    /\ out.decryptAddress = out.contractAddress
    /\ out.decrypted = DecryptError

\* C28: for every two key pairs (a, A) and (b, B), what EncryptECDH(a, B, data)
\* returns decrypts to data with DecryptECDH(b, A) and with DecryptECDH(a, B):
\* both sides derive the same shared secret.
C28_ECDHSymmetric ==
    /\ \A a \in PrivateKeys, b \in PrivateKeys :
           DeriveSharedSecret(a, GetCurve25519PublicKey(b))
               = DeriveSharedSecret(b, GetCurve25519PublicKey(a))
    /\ out.kind = "DecryptECDH" =>
           /\ out.decryptedDataOnNode = [err |-> FALSE, value |-> <<out.data>>]
           /\ out.decryptedDataOnUser = out.decryptedDataOnNode

C28_Witness ==
    /\ out.kind = "DecryptECDH"
    /\ out.userPrivateKey # out.nodePrivateKey
    /\ GetCurve25519PublicKey(out.userPrivateKey)
           # GetCurve25519PublicKey(out.nodePrivateKey)
    /\ out.data = MaxPlain
    /\ out.decryptedDataOnNode.value = <<MaxPlain>>

\* C29: the master key reaches a joining node only after its attestation
\* passed: with an invalid or missing attestation the seed node computes no
\* shared secret and sends no ciphertext, the request returns an error, and
\* the node neither reports itself ready nor processes a transaction that
\* needs confidential state; with the key it holds the seed node's key.
C29_SeedOnlyAfterAttestation ==
    out.kind \in {"GetSeedCmd", "ConfidentialTx"} =>
        /\ out.attestation # "valid" =>
               /\ ~out.sharedSecretComputed
               /\ out.ciphertext = << >>
               /\ out.err
               /\ ~out.ready
               /\ out.masterKey = << >>
               /\ ~out.processed
        /\ out.masterKey # << >> =>
               /\ out.attestation = "valid"
               /\ out.masterKey = <<out.seedMasterKey>>
        /\ out.ready => out.masterKey # << >>

C29_Witness ==
    /\ out.kind = "ConfidentialTx"
    /\ out.portOk
    /\ out.attestation = "invalid"
    /\ out.err
    /\ ~out.processed

\* What a request for a block fact is to be answered with.
BlockFact(tag) ==
    CASE tag = "BlockHash" -> HeaderHash
      [] tag = "BlockTimestamp" -> BlockTime
      [] tag = "BlockNumber" -> BlockHeight
      [] tag = "ChainId" -> ChainID

\* C30: a BlockHash, BlockTimestamp, BlockNumber or ChainId request changes
\* neither the state nor the transients and returns the current header hash,
\* block time, height and chain id; BlockHash returns the current header
\* hash whatever block number it is asked for.
C30_BlockFactsReadOnly ==
    lastReq.tag \in BlockTags =>
        /\ lastResp.status = "ok"
        /\ lastResp.number = BlockFact(lastReq.tag)
        /\ reqPost = reqPre
        /\ pc = "enclave" => (tr = preTr /\ ConnectorState = reqPre)

C30_Witness ==
    /\ pc = "enclave"
    /\ lastReq.tag = "BlockHash"
    /\ lastReq.value # BlockHeight
    /\ lastResp.number = HeaderHash
    /\ reqPre # pre
    /\ tr # InitTransients

\* The keys of the first n visits.
VisitedKeys(visits, n) == {visits[i].key : i \in 1..n}

\* C31: ForEachStorage visits each non-zero cell of the address at most once
\* with its current value, no cell of another address and no zero or
\* deleted cell; it stops as soon as the visitor returns false, and visits
\* every cell of the address when the visitor never does.
C31_ForEachStorage ==
    out.kind = "ForEachStorage" =>
        LET visits == out.visits
            stored == {k \in CellKeySet : GetState(ctx, out.addr, k) # 0}
        IN  /\ \A i \in 1..Len(visits) :
                   /\ visits[i].key \in stored
                   /\ visits[i].value = GetState(ctx, out.addr, visits[i].key)
            /\ \A i \in 1..Len(visits), j \in 1..Len(visits) :
                   visits[i].key = visits[j].key => i = j
            /\ \A i \in 1..(Len(visits) - 1) : visits[i].key \notin out.stopKeys
            /\ VisitedKeys(visits, Len(visits)) \cap out.stopKeys = {} =>
                   VisitedKeys(visits, Len(visits)) = stored

C31_Witness ==
    /\ out.kind = "ForEachStorage" /\ out.addr = "a1"
    /\ out.stopKeys = {"k2"}
    /\ \A k \in CellKeySet : GetState(ctx, "a1", k) = MaxVal
    /\ GetState(ctx, "a2", "k1") = 0 /\ GetState(ctx, "a2", "k3") = MaxVal
    /\ Len(out.visits) = 2
    /\ out.visits[2].key = "k2"

\* C32: a transaction whose post-processing failed is reverted and keeps its
\* gas: the response's gas_used is the gas used the enclave reported, the
\* block's transient gas used has grown by it and the gas meter is reset to
\* that total, as for a committed transaction.
C32_RevertedKeepsGas ==
    out.kind = "response" =>
        /\ out.gasUsed \in GasUsedVals
        /\ tr.gasUsed = preTr.gasUsed + out.gasUsed
        /\ out.gasMeterConsumed = tr.gasUsed
        /\ out.hookFailed => (ctx = pre /\ ~out.committed)

C32_Witness ==
    /\ out.kind = "response"
    /\ out.hookFailed
    /\ out.effects
    /\ txCount = MaxTxs
    /\ preTr.gasUsed = TxGas
    /\ tr.gasUsed = TxGas + TxGas
    /\ out.gasMeterConsumed = tr.gasUsed
    /\ ctx = pre

\* The snapshot ids revert_to accepts now.
Revertible == {sdb.validRevisions[i].id : i \in 1..Len(sdb.validRevisions)}

\* C33: revert_to accepts only an id that snapshot() issued and that was
\* neither reverted past nor committed since; an accepted revert_to(s) drops
\* the journal entries recorded at or after s and invalidates the ids of the
\* snapshots taken after s; after commit() no earlier id is accepted.
C33_RevertOnlyToLiveSnapshot ==
    /\ \A id \in Revertible : id < sdb.nextRevisionId /\ id \notin sdb.retired
    /\ \A i \in 1..Len(sdb.validRevisions) :
           sdb.validRevisions[i].journalIndex <= Len(sdb.journal)
    /\ sdb.last.op = "revert_to" =>
           /\ sdb.last.id < sdb.nextRevisionId
           /\ sdb.last.id \notin sdb.retired
           /\ \A id \in Revertible : id < sdb.last.id
           /\ sdb.overlay = sdb.last.view
    /\ sdb.last.op = "commit" => (Revertible = {} /\ sdb.journal = << >>)

\* A revert to the older of two snapshots, with writes after each of them.
C33_Witness ==
    /\ sdb.last.op = "revert_to"
    /\ sdb.last.id = 0
    /\ sdb.nextRevisionId = 2
    /\ sdb.retired = {1}
    /\ sdb.last.undone > 0
    /\ sdb.last.was # sdb.overlay

\* The pipeline has returned: an error, a response, or a panic of a handler.
Terminal == pc = "idle" /\ out.kind \in {"error", "response", "panic"}

\* C34: when the enclave call returns, a transaction handed to the pipeline
\* reaches a terminal outcome, and it leaves the state in which the enclave
\* runs in no other way than by that outcome.
C34_RunsToCompletion ==
    /\ (pc = "enclave") ~> Terminal
    /\ [][pc = "enclave" /\ pc' # "enclave" => Terminal']_vars
    /\ [][pc = "idle" /\ txCount' # txCount => (pc' = "enclave" \/ Terminal')]_vars

C34_Witness ==
    /\ Terminal
    /\ txCount = MaxTxs
    /\ nreq = MaxReqs
    /\ out.kind = "response"
    /\ out.committed

\* C35: every transaction that ends with a response (committed, VM error or
\* hook failure) raises the block's transient transaction index by exactly
\* one, and every transaction that ends with an error leaves it as it was.
C35_ConsecutiveTxIndex ==
    /\ out.kind = "response" => tr.txIndex = preTr.txIndex + 1
    /\ out.kind = "error" => tr.txIndex = preTr.txIndex

\* C36: no two logs of a block share a log index: the n logs of a transaction
\* carry the indices base, base + 1, ..., base + n - 1, where base is the
\* block's log size before the transaction, and after the transaction the
\* block's log size is base + n.
C36_LogIndicesDistinct ==
    out.kind = "response" =>
        /\ \A i \in 1..Len(out.ethLogs) :
               out.ethLogs[i].index = preTr.logSize + i - 1
        /\ \A i, j \in 1..Len(out.ethLogs) :
               i # j => out.ethLogs[i].index # out.ethLogs[j].index
        /\ tr.logSize = preTr.logSize + Len(out.ethLogs)

\* C37: the leftover gas refunded to the sender, the gas limit minus the gas
\* used the enclave reported, is at most the gas limit, and a transaction for
\* which the enclave reported more gas used than its gas limit ends with an
\* error, never with a response.
C37_RefundWithoutUnderflow ==
    out.kind = "response" =>
        /\ out.refund <= out.gas
        /\ out.gasUsed <= out.gas

\* C38: while a transaction is in flight, a read on the parent context
\* returns the values it held when the transaction was dispatched: no write
\* the enclave issued through the Connector has reached it before the commit.
C38_ScopedUntilCommit ==
    pc = "enclave" => ctx = pre

\* The field of the TransactionContext that holds a block fact.
ContextField(tag) ==
    CASE tag = "BlockHash" -> "blockHash"
      [] tag = "BlockTimestamp" -> "timestamp"
      [] tag = "BlockNumber" -> "blockNumber"
      [] tag = "ChainId" -> "chainId"

\* C39: within one transaction the block number, timestamp, chain id and
\* block hash that the Connector returns for a BlockNumber, BlockTimestamp,
\* ChainId or BlockHash request equal the fields of the TransactionContext
\* that was passed to the enclave for this transaction.
C39_BlockFactsAgree ==
    (pc = "enclave" /\ lastReq.tag \in BlockTags
         /\ ContextField(lastReq.tag) \in DOMAIN txContext) =>
        /\ lastResp.status = "ok"
        /\ lastResp.number = txContext[ContextField(lastReq.tag)]


=============================================================================
